---------------------------- MODULE Spec2Model ----------------------------
(***************************************************************************)
(* A model of the vvcC writer of libavformat/vvc.c (the Annex-B to MP4     *)
(* rewriter ff_vvc_annexb2mp4, the configuration-record builder            *)
(* ff_isom_write_vvcc with its parameter-set parsers, the PTL aggregation  *)
(* vvcc_update_ptl and the serializer vvcc_write) and of the vvcC reader   *)
(* ff_vvc_decode_extradata of libavcodec/libopenvvc.c, and of the flush    *)
(* mode of the VVdeC wrapper of libavcodec/libvvdec.c.                     *)
(*                                                                         *)
(* Bytes are numbers 0..255, buffers are sequences of bytes and a C        *)
(* pointer into a buffer is a 0-based offset.  A read of an uninitialised  *)
(* object is an input drawn from a set of values (the records called u     *)
(* below); a dereference of a null pointer ends the run in pc = "crash".   *)
(***************************************************************************)
EXTENDS Integers, Sequences, FiniteSets, TLC

VARIABLES
    pc,         \* position of the running call
    data,       \* the input buffer handed to the entry point
    filter_ps,  \* ff_vvc_annexb2mp4's filter_ps argument
    ps_completeness, \* ff_isom_write_vvcc's ps_array_completeness argument
    start,      \* the length-prefixed buffer made by ff_avc_parse_nal_units_buf
    buf,        \* offset of the loop pointer buf in start
    vvcc,       \* the VVCDecoderConfigurationRecord
    pb,         \* the bytes written to the AVIOContext so far
    ret,        \* the value returned (or about to be returned)
    num_ps,     \* ff_vvc_annexb2mp4's parameter-set counter
    oob,        \* TRUE once a byte at or beyond the end of start was read
    ptls,       \* the PTLs handed to vvcc_update_ptl so far, in order
    first,      \* the record bytes emitted by an earlier, successful call
    decoded,    \* what ff_vvc_decode_extradata recovered from the record
    gb,         \* the GetBitContext of a running parser, with the parser's locals
    calls,      \* the vvcc_add_nal_unit calls made so far: NAL unit and return value
    args,       \* the arguments of the running parser call
    priv_data   \* the VVdeCContext of the VVdeC wrapper (libavcodec/libvvdec.c)

vars == <<pc, data, filter_ps, ps_completeness, start, buf, vvcc, pb, ret,
          num_ps, oob, ptls, first, decoded, gb, calls, args, priv_data>>

-----------------------------------------------------------------------------
(* Error codes and NAL unit types (libavutil/error.h, libavcodec/vvc.h).    *)

AVERROR_INVALIDDATA == -1094995529
AVERROR_ENOMEM == -12

VVC_OPI_NUT == 12
VVC_DCI_NUT == 13
VVC_VPS_NUT == 14
VVC_SPS_NUT == 15
VVC_PPS_NUT == 16
VVC_PREFIX_SEI_NUT == 23
VVC_SUFFIX_SEI_NUT == 24
VVC_MAX_VPS_COUNT == 16
VVC_MAX_SPS_COUNT == 16
CTB_SIZE_Y == 128

NULL == <<>>

-----------------------------------------------------------------------------
(* Integer helpers: C's macros and bit operators on non-negative integers.  *)

FFMAX(a, b) == IF a > b THEN a ELSE b
FFMIN(a, b) == IF a > b THEN b ELSE a

RECURSIVE Pow2(_)
Pow2(n) == IF n <= 0 THEN 1 ELSE 2 * Pow2(n - 1)

RECURSIVE BitOr(_, _)
BitOr(a, b) ==
    IF a = 0 THEN b
    ELSE IF b = 0 THEN a
    ELSE (IF a % 2 = 1 \/ b % 2 = 1 THEN 1 ELSE 0)
          + 2 * BitOr(a \div 2, b \div 2)

RECURSIVE BitAnd(_, _)
BitAnd(a, b) ==
    IF a = 0 \/ b = 0 THEN 0
    ELSE (IF a % 2 = 1 /\ b % 2 = 1 THEN 1 ELSE 0)
          + 2 * BitAnd(a \div 2, b \div 2)

Shl(a, n) == a * Pow2(n)
Shr(a, n) == a \div Pow2(n)
U8(a) == a % 256
U16(a) == a % 65536
CeilDiv8(n) == (n + 7) \div 8

RECURSIVE SeqMax(_)
SeqMax(s) == IF s = <<>> THEN 0 ELSE FFMAX(Head(s), SeqMax(Tail(s)))

RECURSIVE Concat(_)
Concat(ss) == IF ss = <<>> THEN <<>> ELSE Head(ss) \o Concat(Tail(ss))

-----------------------------------------------------------------------------
(* The byte sink: avio_w8, avio_wb16, avio_wb32, avio_write.                *)

BE16(v) == <<Shr(v, 8) % 256, v % 256>>
BE32(v) == <<Shr(v, 24) % 256, Shr(v, 16) % 256, Shr(v, 8) % 256, v % 256>>

avio_w8(s, b) == Append(s, U8(b))
avio_wb16(s, v) == s \o BE16(v)
avio_wb32(s, v) == s \o BE32(v)
avio_write(s, bytes) == s \o bytes

AV_RB24(b, o) == Shl(b[o + 1], 16) + Shl(b[o + 2], 8) + b[o + 3]
AV_RB32(b, o) == Shl(b[o + 1], 24) + Shl(b[o + 2], 16) + Shl(b[o + 3], 8) + b[o + 4]

-----------------------------------------------------------------------------
(* vvcc_init: memset to zero, then the three defaults.  The pointer members *)
(* are null and no function of the file ever allocates the two sublayer     *)
(* arrays or general_sub_profile_idc.                                       *)

vvcc_init ==
    [ lengthSizeMinusOne |-> 3,
      ptl_present_flag |-> 1,
      ols_idx |-> 0,
      num_sublayers |-> 0,
      constant_frame_rate |-> 0,
      chroma_format_idc |-> 0,
      bit_depth_minus8 |-> 0,
      num_bytes_constraint_info |-> 1,
      general_profile_idc |-> 0,
      general_tier_flag |-> 0,
      general_level_idc |-> 0,
      ptl_frame_only_constraint_flag |-> 0,
      ptl_multilayer_enabled_flag |-> 0,
      general_constraint_info |-> NULL,
      ptl_sublayer_level_present_flag |-> NULL,
      sublayer_level_idc |-> NULL,
      num_sub_profiles |-> 0,
      general_sub_profile_idc |-> NULL,
      max_picture_width |-> 0,
      max_picture_height |-> 0,
      avg_frame_rate |-> 0,
      numOfArrays |-> 0,
      array |-> <<>> ]

-----------------------------------------------------------------------------
(* vvcc_update_ptl, statement by statement.                                 *)

\* lines 97-100: the level follows the tier
UpdateLevel_Incoming(v, ptl) == ptl.general_level_idc
UpdateLevel_LevelOnly(v, ptl) == FFMAX(v.general_level_idc, ptl.general_level_idc)
UpdateLevel(v, ptl) ==
    IF v.general_tier_flag < ptl.tier_flag
    THEN ptl.general_level_idc
    ELSE FFMAX(v.general_level_idc, ptl.general_level_idc)

\* line 106
UpdateTier_Last(v, ptl) == ptl.tier_flag
UpdateTier(v, ptl) == FFMAX(v.general_tier_flag, ptl.tier_flag)

\* line 122
UpdateProfile(v, ptl) == FFMAX(v.general_profile_idc, ptl.profile_idc)

\* lines 128-129
UpdateFrameOnly(v, ptl) ==
    BitAnd(v.ptl_frame_only_constraint_flag, ptl.ptl_frame_only_constraint_flag)
UpdateMultilayer(v, ptl) ==
    BitAnd(v.ptl_multilayer_enabled_flag, ptl.ptl_multilayer_enabled_flag)

\* lines 135-147.  With general-constraints info the block is one malloc'ed
\* byte: line 139 shifts an int by 71 (undefined, the byte u.shift71 stands for
\* what is left of it), line 140 keeps gci_num_reserved_bits alone in the byte
\* and line 141 shifts it out again, by 8*ceil(n/8) bits (undefined from 32 on).
UpdateNumBytes(ptl) ==
    IF ptl.gci_present_flag # 0
    THEN 10 + CeilDiv8(ptl.gci_num_reserved_bits)
    ELSE 1
UpdateConstraintInfo(ptl, u) ==
    IF ptl.gci_present_flag # 0
    THEN LET l139 == U8(BitOr(u.shift71, ptl.gci_general_constraints))
             l140 == U8(BitOr(Shl(l139, 8), ptl.gci_num_reserved_bits))
             sh   == 8 * CeilDiv8(ptl.gci_num_reserved_bits)
         IN  IF sh < 32 THEN <<U8(Shl(l140, sh))>> ELSE <<u.shift71>>
    ELSE <<0>>

\* lines 153-164: a store through the null ptl_sublayer_level_present_flag
SublayerLoopFaults(v) ==
    v.num_sublayers - 2 >= 0 /\ v.ptl_sublayer_level_present_flag = NULL

\* lines 166-169: a store through the null general_sub_profile_idc
UpdateNumSubProfiles(v, ptl) == FFMAX(v.num_sub_profiles, ptl.ptl_num_sub_profiles)
SubProfileLoopFaults(v, ptl) ==
    UpdateNumSubProfiles(v, ptl) > 0 /\ v.general_sub_profile_idc = NULL

\* The whole function: the record it leaves and whether it faulted on the way.
vvcc_update_ptl(v, ptl, u) ==
    LET v1 == [v EXCEPT
                 !.general_level_idc = UpdateLevel(v, ptl),
                 !.general_tier_flag = UpdateTier(v, ptl),
                 !.general_profile_idc = UpdateProfile(v, ptl),
                 !.ptl_frame_only_constraint_flag = UpdateFrameOnly(v, ptl),
                 !.ptl_multilayer_enabled_flag = UpdateMultilayer(v, ptl),
                 !.num_bytes_constraint_info = UpdateNumBytes(ptl),
                 !.general_constraint_info = UpdateConstraintInfo(ptl, u)]
    IN  IF SublayerLoopFaults(v1)
        THEN [vvcc |-> v1, fault |-> TRUE]
        ELSE [vvcc |-> [v1 EXCEPT !.num_sub_profiles = UpdateNumSubProfiles(v1, ptl)],
              fault |-> SubProfileLoopFaults(v1, ptl)]

-----------------------------------------------------------------------------
(* The bit reader (libavcodec/get_bits.h, golomb.h) over an RBSP b, with    *)
(* the bit index as the reader's state.  The buffer is followed by zeroed   *)
(* padding and the index stops at 8 bits past the end, so a read beyond the *)
(* end yields zero bits; the reader has no error return.                    *)

Bit(b, k) == IF k < 8 * Len(b) THEN Shr(b[(k \div 8) + 1], 7 - (k % 8)) % 2 ELSE 0

RECURSIVE get_bits(_, _, _)
get_bits(b, k, n) ==
    IF n <= 0 THEN 0 ELSE 2 * get_bits(b, k, n - 1) + Bit(b, k + n - 1)

skip_bits(b, k, n) == FFMIN(k + n, 8 * Len(b) + 8)

\* while (gb->index % 8 != 0) skip_bits1(gb);
AlignByte(b, k) == skip_bits(b, k, (8 - (k % 8)) % 8)

RECURSIVE LeadingZeros(_, _, _)
LeadingZeros(b, k, n) ==
    IF n >= 31 \/ Bit(b, k + n) = 1 THEN n ELSE LeadingZeros(b, k, n + 1)

\* get_ue_golomb_long: log = 31 - av_log2(show_bits_long(32)); skip log bits;
\* get_bits_long(log + 1) - 1 in unsigned 32-bit arithmetic.  The value is
\* kept as two 16-bit halves, hi * 65536 + lo.
UeDecrement(hi, lo, index) ==
    [ hi |-> IF lo > 0 THEN hi ELSE (hi + 65535) % 65536,
      lo |-> (lo + 65535) % 65536,
      index |-> index ]

UeRead(b, k, n) ==
    UeDecrement(IF n > 16 THEN get_bits(b, k, n - 16) ELSE 0,
                IF n > 16 THEN get_bits(b, k + n - 16, 16) ELSE get_bits(b, k, n),
                skip_bits(b, k, n))

UeAfterZeros(b, k, log) == UeRead(b, skip_bits(b, k, log), log + 1)

get_ue_golomb_long(b, k) == UeAfterZeros(b, k, LeadingZeros(b, k, 0))

-----------------------------------------------------------------------------
(* ff_nal_unit_extract_rbsp (libavformat/avc.c): the header bytes are       *)
(* copied, then every 00 00 03 loses its 03.                                *)

RECURSIVE StripEpb(_, _)
StripEpb(src, i) ==
    IF i + 2 < Len(src)
    THEN IF src[i + 1] = 0 /\ src[i + 2] = 0 /\ src[i + 3] = 3
         THEN <<0, 0>> \o StripEpb(src, i + 3)
         ELSE <<src[i + 1]>> \o StripEpb(src, i + 1)
    ELSE SubSeq(src, i + 1, Len(src))

ff_nal_unit_extract_rbsp(src, header_len) ==
    LET h == FFMIN(header_len, Len(src))
    IN  SubSeq(src, 1, h) \o StripEpb(src, h)

-----------------------------------------------------------------------------
(* vvcc_parse_ptl.  general_ptl is an uninitialised local: with             *)
(* profileTierPresentFlag = 0 its profile_idc, tier_flag, gci_present_flag,  *)
(* gci_num_reserved_bits, ptl_num_sub_profiles and general_sub_profile_idc   *)
(* are read (lines 122-168) and freed (line 225) without ever being set.     *)
(* The parse is a chain of steps over s = [index, ptl], the reader's bit     *)
(* index and general_ptl, which starts as whatever the stack holds.          *)

UninitBytes == {0, 255}

UninitPtl(a, b, c) ==
    [ profile_idc |-> a, tier_flag |-> a, general_level_idc |-> 0,
      ptl_frame_only_constraint_flag |-> 0, ptl_multilayer_enabled_flag |-> 0,
      gci_present_flag |-> b, gci_general_constraints |-> 0,
      gci_num_reserved_bits |-> b,
      ptl_sublayer_level_present_flag |-> <<>>, sublayer_level_idc |-> <<>>,
      ptl_num_sub_profiles |-> c, general_sub_profile_idc |-> <<>> ]

\* what the unset fields hold: all zero, or 255 in the profile and tier, in
\* the constraint-info fields, or in the sub-profile count
PtlGarbage == { UninitPtl(a, b, c) : a \in UninitBytes, b \in UninitBytes, c \in UninitBytes }

\* lines 182-185
PtlProfileTier(b, s, ptpf) ==
    IF ptpf = 0 THEN s
    ELSE [ index |-> skip_bits(b, s.index, 8),
           ptl |-> [s.ptl EXCEPT !.profile_idc = get_bits(b, s.index, 7),
                                 !.tier_flag = Bit(b, skip_bits(b, s.index, 7))] ]

\* lines 186-189
PtlLevelFlags(b, s) ==
    [ index |-> skip_bits(b, s.index, 10),
      ptl |-> [s.ptl EXCEPT
                 !.general_level_idc = get_bits(b, s.index, 8),
                 !.ptl_frame_only_constraint_flag = Bit(b, skip_bits(b, s.index, 8)),
                 !.ptl_multilayer_enabled_flag = Bit(b, skip_bits(b, s.index, 9))] ]

\* line 191
PtlGciFlag(b, s, ptpf) ==
    IF ptpf = 0 THEN s
    ELSE [ index |-> skip_bits(b, s.index, 1),
           ptl |-> [s.ptl EXCEPT !.gci_present_flag = Bit(b, s.index)] ]

\* lines 193-194 (of the 71 constraint bits only the low 8 can reach the
\* one-byte target of line 139)
PtlGciInfo(b, s, ptpf) ==
    IF ptpf = 0 \/ s.ptl.gci_present_flag = 0 THEN s
    ELSE [ index |-> skip_bits(b, s.index, 79),
           ptl |-> [s.ptl EXCEPT
                      !.gci_general_constraints = get_bits(b, s.index + 63, 8),
                      !.gci_num_reserved_bits = get_bits(b, skip_bits(b, s.index, 71), 8)] ]

\* lines 195-198
PtlGciSkip(b, s, ptpf) ==
    IF ptpf = 0 THEN s
    ELSE [s EXCEPT !.index =
            AlignByte(b, IF s.ptl.gci_present_flag # 0
                         THEN skip_bits(b, @, s.ptl.gci_num_reserved_bits) ELSE @)]

\* lines 201-206: the flag of the highest sublayer comes first
PtlSublayerFlags(b, s, msl) ==
    [ index |-> AlignByte(b, skip_bits(b, s.index, msl)),
      ptl |-> [s.ptl EXCEPT !.ptl_sublayer_level_present_flag =
                 [k \in 1 .. msl |-> Bit(b, skip_bits(b, s.index, msl - k))]] ]

\* lines 208-211 read a level for every sublayer, whatever its present flag
SublayerLevelBits(flags) == 8 * Len(flags)

PtlSublayerLevels(b, s, msl) ==
    [ index |-> skip_bits(b, s.index, SublayerLevelBits(s.ptl.ptl_sublayer_level_present_flag)),
      ptl |-> [s.ptl EXCEPT !.sublayer_level_idc =
                 [k \in 1 .. msl |-> get_bits(b, skip_bits(b, s.index, 8 * (msl - k)), 8)]] ]

\* lines 213-219
PtlSubProfiles(b, s, ptpf) ==
    IF ptpf = 0 THEN s
    ELSE [ index |-> skip_bits(b, s.index, 8 + 32 * get_bits(b, s.index, 8)),
           ptl |-> [s.ptl EXCEPT !.ptl_num_sub_profiles = get_bits(b, s.index, 8)] ]

\* lines 182-219
ParsePtlFields(b, i0, ptpf, msl, g) ==
    PtlSubProfiles(b,
      PtlSublayerLevels(b,
        PtlSublayerFlags(b,
          PtlGciSkip(b,
            PtlGciInfo(b,
              PtlGciFlag(b,
                PtlLevelFlags(b,
                  PtlProfileTier(b, [index |-> i0, ptl |-> g], ptpf)),
                ptpf), ptpf), ptpf), msl), msl), ptpf)

\* the garbage a call can meet: none of it is read when the flag is set
PtlGarbageFor(ptpf) == IF ptpf # 0 THEN {UninitPtl(0, 0, 0)} ELSE PtlGarbage
FreeFor(ptpf) == IF ptpf # 0 THEN {TRUE} ELSE BOOLEAN
Shift71For(ptl) ==
    IF ptl.gci_present_flag # 0 /\ 8 * CeilDiv8(ptl.gci_num_reserved_bits) >= 32
    THEN UninitBytes ELSE {0}

\* lines 221-225: the update, then free() of the three pointers
PtlOutcome(index, r, free_ok) ==
    [index |-> index, vvcc |-> r.vvcc, fault |-> r.fault \/ ~free_ok]

PtlOutcomes(f, v, frees) ==
    { PtlOutcome(f.index, vvcc_update_ptl(v, f.ptl, [shift71 |-> x]), ok)
      : x \in Shift71For(f.ptl), ok \in frees }

\* every outcome of one call: the index and record it leaves, and whether it
\* faulted (in vvcc_update_ptl, or in free() of the unset pointer)
vvcc_parse_ptl(b, i0, v, ptpf, msl) ==
    UNION { PtlOutcomes(ParsePtlFields(b, i0, ptpf, msl, g), v, FreeFor(ptpf))
            : g \in PtlGarbageFor(ptpf) }

-----------------------------------------------------------------------------
(* vvcc_parse_vps.  Its locals and its two malloc'ed arrays are read without *)
(* having been set on these paths:                                           *)
(*   vps_default_ptl_dpb_hrd_max_tid_flag  unless both maxima are > 0 (373)  *)
(*   vps_each_layer_is_an_ols_flag         when not all layers independent   *)
(*   vps_ols_mode_idc                      when all layers are independent   *)
(*   vps_pt_present_flag[0]                always (413)                      *)
(*   vps_ptl_max_tid[i]                    when the default flag is set (415)*)
(* The parse is a chain of steps over s, the reader's bit index and the      *)
(* locals, which start as the garbage g.                                     *)

UninitFlags == {0, 1}
UninitTids == {0, 1}
UninitOlsModes == {0, 2}

VpsGarbage ==
    [ default_flag : UninitFlags, each_layer : UninitFlags, ols_mode : UninitOlsModes,
      pt_present0 : UninitFlags, tid : UninitTids ]

VpsStart(i0, g) ==
    [ index |-> i0, max_layers_minus1 |-> 0, max_sub_layers_minus1 |-> 0,
      default_flag |-> g.default_flag, all_indep |-> 0,
      each_layer |-> g.each_layer, ols_mode |-> g.ols_mode,
      num_ptls_minus1 |-> 0, pt |-> <<>>, tid |-> <<>>,
      unset_pt |-> g.pt_present0, unset_tid |-> g.tid ]

\* lines 356-359
VpsIds(b, s) ==
    [s EXCEPT !.index = skip_bits(b, @, 13),
              !.max_layers_minus1 = get_bits(b, skip_bits(b, s.index, 4), 6),
              !.max_sub_layers_minus1 = get_bits(b, skip_bits(b, s.index, 10), 3)]

\* lines 373-374
VpsDefaultFlag(b, s) ==
    IF s.max_layers_minus1 > 0 /\ s.max_sub_layers_minus1 > 0
    THEN [s EXCEPT !.index = skip_bits(b, @, 1), !.default_flag = Bit(b, s.index)]
    ELSE s

\* lines 375-376
VpsAllIndep(b, s) ==
    IF s.max_layers_minus1 > 0
    THEN [s EXCEPT !.index = skip_bits(b, @, 1), !.all_indep = Bit(b, s.index)]
    ELSE s

\* lines 383-386
RECURSIVE VpsRefLayers(_, _, _, _)
VpsRefLayers(b, i, present, count) ==
    IF count = 0 \/ present = 0 THEN i
    ELSE VpsRefLayers(b, skip_bits(b, i, IF Bit(b, i) = 1 THEN 4 ELSE 1), present, count - 1)

\* line 380 reads the per-layer syntax when the all-independent flag is clear
LayerSyntaxRead(k, all_indep) == k > 0 /\ all_indep = 0

\* lines 379-388, one layer
VpsLayer(b, i, k, all_indep) ==
    IF LayerSyntaxRead(k, all_indep)
    THEN IF Bit(b, skip_bits(b, i, 6)) = 1
         THEN VpsRefLayers(b, skip_bits(b, i, 8), Bit(b, skip_bits(b, i, 7)), k)
         ELSE skip_bits(b, i, 7)
    ELSE skip_bits(b, i, 6)

RECURSIVE VpsLayerLoop(_, _, _, _, _)
VpsLayerLoop(b, i, k, max_layers_minus1, all_indep) ==
    IF k > max_layers_minus1 THEN i
    ELSE VpsLayerLoop(b, VpsLayer(b, i, k, all_indep), k + 1, max_layers_minus1, all_indep)

VpsLayers(b, s) ==
    [s EXCEPT !.index = VpsLayerLoop(b, @, 0, s.max_layers_minus1, s.all_indep)]

\* lines 392-393
VpsEachLayer(b, s) ==
    IF s.max_layers_minus1 > 0 /\ s.all_indep # 0
    THEN [s EXCEPT !.index = skip_bits(b, @, 1), !.each_layer = Bit(b, s.index)]
    ELSE s

\* lines 394-396
VpsOlsMode(b, s) ==
    IF s.max_layers_minus1 > 0 /\ s.each_layer # 0 /\ s.all_indep = 0
    THEN [s EXCEPT !.index = skip_bits(b, @, 2), !.ols_mode = get_bits(b, s.index, 2)]
    ELSE s

\* lines 397-404
VpsOlsSets(b, s) ==
    IF s.max_layers_minus1 > 0 /\ s.each_layer # 0 /\ s.ols_mode = 2
    THEN [s EXCEPT !.index =
            skip_bits(b, skip_bits(b, @, 8),
                      (get_bits(b, @, 8) + 1) * (s.max_layers_minus1 + 1))]
    ELSE s

\* line 406
VpsNumPtls(b, s) ==
    IF s.max_layers_minus1 > 0
    THEN [s EXCEPT !.index = skip_bits(b, @, 8), !.num_ptls_minus1 = get_bits(b, s.index, 8)]
    ELSE s

\* lines 413-416
VpsPtPresent(b, s, k) ==
    IF k > 0
    THEN [s EXCEPT !.index = skip_bits(b, @, 1), !.pt = Append(@, Bit(b, s.index))]
    ELSE [s EXCEPT !.pt = Append(@, s.unset_pt)]

VpsPtlMaxTid(b, s) ==
    IF s.default_flag = 0
    THEN [s EXCEPT !.index = skip_bits(b, @, 3), !.tid = Append(@, get_bits(b, s.index, 3))]
    ELSE [s EXCEPT !.tid = Append(@, s.unset_tid)]

RECURSIVE VpsPtlArrays(_, _, _)
VpsPtlArrays(b, s, k) ==
    IF k > s.num_ptls_minus1 THEN s
    ELSE VpsPtlArrays(b, VpsPtlMaxTid(b, VpsPtPresent(b, s, k)), k + 1)

\* lines 419-420
VpsAlign(b, s) == [s EXCEPT !.index = AlignByte(b, @)]

\* lines 356-420: everything before the profile_tier_level structures
VpsHeader(b, i0, g) ==
    VpsAlign(b,
      VpsPtlArrays(b,
        VpsNumPtls(b,
          VpsOlsSets(b,
            VpsOlsMode(b,
              VpsEachLayer(b,
                VpsLayers(b,
                  VpsAllIndep(b,
                    VpsDefaultFlag(b,
                      VpsIds(b, VpsStart(i0, g))))))))), 0))

\* the garbage one parse can meet; what is never read is left at 0
VpsGarbageFor(b, i0) ==
    { g \in VpsGarbage :
        /\ VpsIds(b, VpsStart(i0, g)).max_layers_minus1 = 0
              => g.each_layer = 0 /\ g.ols_mode = 0
        /\ VpsDefaultFlag(b, VpsIds(b, VpsStart(i0, g))).default_flag = 0 => g.tid = 0
        /\ VpsDefaultFlag(b, VpsIds(b, VpsStart(i0, g))).default_flag # g.default_flag
              => g.default_flag = 0 }

\* lines 422-424: the profile_tier_level structures, one after the other; a
\* fault ends the run where it happens
RECURSIVE VpsPtlLoop(_, _, _, _)
VpsPtlLoop(b, outcomes, k, h) ==
    IF k > Len(h.pt) THEN outcomes
    ELSE VpsPtlLoop(b,
            UNION { IF o.fault THEN {o}
                    ELSE vvcc_parse_ptl(b, o.index, o.vvcc, h.pt[k], h.tid[k])
                    : o \in outcomes },
            k + 1, h)

VpsPtls(b, v, h) ==
    VpsPtlLoop(b,
        {[ index |-> h.index, fault |-> FALSE,
           vvcc |-> [v EXCEPT !.num_sublayers = FFMAX(@, h.max_sub_layers_minus1 + 1)] ]},
        1, h)

vvcc_parse_vps(b, i0, v) ==
    UNION { VpsPtls(b, v, VpsHeader(b, i0, g)) : g \in VpsGarbageFor(b, i0) }

-----------------------------------------------------------------------------
(* vvcc_parse_sps.                                                           *)

\* an Exp-Golomb value as a number (it is a loop bound on lines 502 and 521)
UeValue(ue) == ue.hi * 65536 + ue.lo

\* lines 484, 486: FFMAX of the uint16_t field and the 32-bit value, stored
\* back into the uint16_t field
UpdateMaxDimension(field, ue) ==
    IF ue.hi > 0 \/ ue.lo > field THEN ue.lo ELSE field

ExceedsCtb(ue) == ue.hi > 0 \/ ue.lo > CTB_SIZE_Y

\* lines 502-517
RECURSIVE SpsSubpicLoop(_, _, _, _, _, _, _, _, _)
SpsSubpicLoop(b, i, k, n, same, indep, len, wBig, hBig) ==
    IF ~(n > 0 /\ k <= n) THEN i
    ELSE LET sized == same = 0 \/ k = 0
             i1 == IF sized /\ k > 0 /\ wBig THEN skip_bits(b, i, len) ELSE i
             i2 == IF sized /\ k > 0 /\ hBig THEN skip_bits(b, i1, len) ELSE i1
             i3 == IF sized /\ k < n /\ wBig THEN skip_bits(b, i2, len) ELSE i2
             i4 == IF sized /\ k < n /\ hBig THEN skip_bits(b, i3, len) ELSE i3
             i5 == IF indep = 0 THEN skip_bits(b, i4, 2) ELSE i4
         IN  SpsSubpicLoop(b, i5, k + 1, n, same, indep, len, wBig, hBig)

\* lines 518-524
SpsSubpicMapping(b, i, n) ==
    IF Bit(b, i) = 1
    THEN IF Bit(b, skip_bits(b, i, 1)) = 1
         THEN skip_bits(b, skip_bits(b, i, 2), n + 1)
         ELSE skip_bits(b, i, 2)
    ELSE skip_bits(b, i, 1)

\* lines 497-525
SpsSubpicsFrom(b, num, n, log2_ctu_size_minus5, wBig, hBig) ==
    SpsSubpicMapping(b,
        get_ue_golomb_long(b,
            SpsSubpicLoop(b,
                IF n > 0 THEN skip_bits(b, num.index, 2) ELSE num.index,
                0, n,
                IF n > 0 THEN Bit(b, skip_bits(b, num.index, 1)) ELSE 0,
                IF n > 0 THEN Bit(b, num.index) ELSE 0,
                FFMIN(log2_ctu_size_minus5 + 5, 16), wBig, hBig)).index,
        n)

SpsSubpicInfo(b, num, log2_ctu_size_minus5, wBig, hBig) ==
    SpsSubpicsFrom(b, num, UeValue(num), log2_ctu_size_minus5, wBig, hBig)

\* The rest of the parse is a chain of steps over
\* s = [index, vvcc, fault, log2, width, height].

\* lines 480-482
SpsGdr(b, s) ==
    [s EXCEPT !.index = skip_bits(b, @, IF Bit(b, skip_bits(b, @, 1)) = 1 THEN 3 ELSE 2)]

\* lines 483-484
SpsSetWidth(s, ue) ==
    [s EXCEPT !.index = ue.index, !.width = ue,
              !.vvcc.max_picture_width = UpdateMaxDimension(@, ue)]
SpsWidth(b, s) == SpsSetWidth(s, get_ue_golomb_long(b, s.index))

\* lines 485-486
SpsSetHeight(s, ue) ==
    [s EXCEPT !.index = ue.index, !.height = ue,
              !.vvcc.max_picture_height = UpdateMaxDimension(@, ue)]
SpsHeight(b, s) == SpsSetHeight(s, get_ue_golomb_long(b, s.index))

\* lines 489-494
SpsConfWin(b, s) ==
    IF Bit(b, s.index) = 1
    THEN [s EXCEPT !.index =
            get_ue_golomb_long(b,
              get_ue_golomb_long(b,
                get_ue_golomb_long(b,
                  get_ue_golomb_long(b, skip_bits(b, @, 1)).index).index).index).index]
    ELSE [s EXCEPT !.index = skip_bits(b, @, 1)]

\* lines 496-525
SpsSubpics(b, s) ==
    IF Bit(b, s.index) = 1
    THEN [s EXCEPT !.index =
            SpsSubpicInfo(b, get_ue_golomb_long(b, skip_bits(b, @, 1)), s.log2,
                          ExceedsCtb(s.width), ExceedsCtb(s.height))]
    ELSE [s EXCEPT !.index = skip_bits(b, @, 1)]

\* line 526
SpsSetDepth(s, ue) == [s EXCEPT !.index = ue.index, !.vvcc.bit_depth_minus8 = U8(ue.lo)]
SpsDepth(b, s) == SpsSetDepth(s, get_ue_golomb_long(b, s.index))

\* lines 480-526: what follows the profile_tier_level structure
SpsRest(b, o, log2_ctu_size_minus5) ==
    SpsDepth(b,
      SpsSubpics(b,
        SpsConfWin(b,
          SpsHeight(b,
            SpsWidth(b,
              SpsGdr(b, [ index |-> o.index, vvcc |-> o.vvcc, fault |-> FALSE,
                          log2 |-> log2_ctu_size_minus5,
                          width |-> UeDecrement(0, 1, 0),
                          height |-> UeDecrement(0, 1, 0) ]))))))

SpsOutcome(s) == [index |-> s.index, vvcc |-> s.vvcc, fault |-> s.fault]

\* lines 460-475
SpsHead_Overwrite(b, i0, v) ==
    [ index |-> skip_bits(b, i0, 15),
      max_sub_layers_minus1 |-> get_bits(b, skip_bits(b, i0, 8), 3),
      log2 |-> get_bits(b, skip_bits(b, i0, 13), 2),
      vvcc |-> [v EXCEPT
                  !.num_sublayers = get_bits(b, skip_bits(b, i0, 8), 3) + 1,
                  !.chroma_format_idc = get_bits(b, skip_bits(b, i0, 11), 2)] ]
SpsHead(b, i0, v) ==
    [ index |-> skip_bits(b, i0, 15),
      max_sub_layers_minus1 |-> get_bits(b, skip_bits(b, i0, 8), 3),
      log2 |-> get_bits(b, skip_bits(b, i0, 13), 2),
      vvcc |-> [v EXCEPT
                  !.num_sublayers = FFMAX(@, get_bits(b, skip_bits(b, i0, 8), 3) + 1),
                  !.chroma_format_idc = get_bits(b, skip_bits(b, i0, 11), 2)] ]

\* lines 477-478
SpsPtl(b, h) ==
    IF Bit(b, h.index) = 1
    THEN vvcc_parse_ptl(b, skip_bits(b, h.index, 1), h.vvcc, 1, h.max_sub_layers_minus1)
    ELSE {[index |-> skip_bits(b, h.index, 1), vvcc |-> h.vvcc, fault |-> FALSE]}

SpsAfterHead(b, h) ==
    { IF o.fault THEN o ELSE SpsOutcome(SpsRest(b, o, h.log2)) : o \in SpsPtl(b, h) }

vvcc_parse_sps(b, i0, v) == SpsAfterHead(b, SpsHead(b, i0, v))

-----------------------------------------------------------------------------
(* nal_unit_parse_header, vvcc_array_add_nal_unit, vvcc_add_nal_unit.        *)

\* lines 549-555: the type, and the index left after the two header bytes
nal_unit_parse_header(b) ==
    [ nal_type |-> get_bits(b, skip_bits(b, 0, 8), 5), index |-> skip_bits(b, 0, 16) ]

\* lines 567-569: the first array of this type, or numOfArrays
RECURSIVE ArrayIndex(_, _, _)
ArrayIndex(v, nal_type, index) ==
    IF index < v.numOfArrays /\ v.array[index + 1].NAL_unit_type # nal_type
    THEN ArrayIndex(v, nal_type, index + 1)
    ELSE index

EmptyArray ==
    [ array_completeness |-> 0, NAL_unit_type |-> 0, numNalus |-> 0,
      nalUnitLength |-> <<>>, nalUnit |-> <<>> ]

\* lines 571-581
EnsureArray(v, index) ==
    IF index >= v.numOfArrays
    THEN [v EXCEPT !.array = Append(@, EmptyArray), !.numOfArrays = U8(index + 1)]
    ELSE v

\* line 605
IsCompletenessType(nal_type) == nal_type \in {VVC_VPS_NUT, VVC_SPS_NUT, VVC_PPS_NUT}

\* lines 594-606
StoreNal(a, nal_buf, nal_size, nal_type, ps_array_completeness) ==
    [a EXCEPT !.nalUnit = Append(@, nal_buf),
              !.nalUnitLength = Append(@, U16(nal_size)),
              !.NAL_unit_type = nal_type,
              !.numNalus = U16(@ + 1),
              !.array_completeness =
                  IF IsCompletenessType(nal_type) THEN U8(ps_array_completeness) ELSE @]

ArrayAddAt(nal_buf, nal_size, nal_type, ps_array_completeness, v, index) ==
    [v EXCEPT !.array[index + 1] =
        StoreNal(@, nal_buf, nal_size, nal_type, ps_array_completeness)]

vvcc_array_add_nal_unit(nal_buf, nal_size, nal_type, ps_array_completeness, v) ==
    ArrayAddAt(nal_buf, nal_size, nal_type, ps_array_completeness,
               EnsureArray(v, ArrayIndex(v, nal_type, 0)), ArrayIndex(v, nal_type, 0))

\* line 638
IsStoredType(nal_type) ==
    nal_type \in {VVC_OPI_NUT, VVC_VPS_NUT, VVC_SPS_NUT, VVC_PPS_NUT,
                  VVC_PREFIX_SEI_NUT, VVC_SUFFIX_SEI_NUT}

\* lines 649-656
ParseStored(rbsp, h, v) ==
    IF h.nal_type = VVC_VPS_NUT THEN vvcc_parse_vps(rbsp, h.index, v)
    ELSE IF h.nal_type = VVC_SPS_NUT THEN vvcc_parse_sps(rbsp, h.index, v)
    ELSE {[index |-> h.index, vvcc |-> v, fault |-> FALSE]}

\* lines 638-663
AddParsed(nal_buf, nal_size, ps_array_completeness, v, rbsp, h) ==
    IF ~IsStoredType(h.nal_type)
    THEN {[vvcc |-> v, ret |-> AVERROR_INVALIDDATA, fault |-> FALSE]}
    ELSE { [vvcc |-> o.vvcc, ret |-> 0, fault |-> o.fault]
           : o \in ParseStored(rbsp, h,
                     vvcc_array_add_nal_unit(nal_buf, nal_size, h.nal_type,
                                             ps_array_completeness, v)) }

AddExtracted(nal_buf, nal_size, ps_array_completeness, v, rbsp) ==
    AddParsed(nal_buf, nal_size, ps_array_completeness, v, rbsp,
              nal_unit_parse_header(rbsp))

\* every outcome of one call: the record, the return value, and whether a
\* parser faulted
vvcc_add_nal_unit(nal_buf, nal_size, ps_array_completeness, v) ==
    AddExtracted(nal_buf, nal_size, ps_array_completeness, v,
                 ff_nal_unit_extract_rbsp(SubSeq(nal_buf, 1, nal_size), 2))

-----------------------------------------------------------------------------
(* vvcc_close and vvcc_write.                                                *)

\* lines 684-693 (general_constraint_info is released, not reset)
vvcc_close_KeepsArrays(v) == [v EXCEPT !.general_constraint_info = NULL]
vvcc_close(v) ==
    [v EXCEPT !.array = <<>>, !.numOfArrays = 0, !.general_constraint_info = NULL]

\* lines 760-773: the uint16_t total of numNalus over the arrays of one type
RECURSIVE NalusOfType(_, _, _)
NalusOfType(v, nal_type, i) ==
    IF i > v.numOfArrays THEN 0
    ELSE U16(NalusOfType(v, nal_type, i + 1)
             + IF v.array[i].NAL_unit_type = nal_type THEN v.array[i].numNalus ELSE 0)

\* lines 774-775
CountsInvalid(v) ==
    \/ NalusOfType(v, VVC_VPS_NUT, 1) = 0
    \/ NalusOfType(v, VVC_VPS_NUT, 1) > VVC_MAX_VPS_COUNT
    \/ NalusOfType(v, VVC_SPS_NUT, 1) = 0
    \/ NalusOfType(v, VVC_SPS_NUT, 1) > VVC_MAX_SPS_COUNT

\* line 781
FirstByte_NoShift(v) == BitOr(BitOr(v.lengthSizeMinusOne, v.ptl_present_flag), 248)
FirstByte(v) == BitOr(BitOr(Shl(v.lengthSizeMinusOne, 1), v.ptl_present_flag), 248)

\* line 789
PackedTwoBytes(v) ==
    BitOr(BitOr(BitOr(Shl(v.ols_idx, 7), Shl(v.num_sublayers, 4)),
                Shl(v.constant_frame_rate, 2)), v.chroma_format_idc)

\* line 813: flag << count in a 32-bit int; a count of 32 or more is
\* undefined for a set flag
FlagShifts(flag, count) ==
    IF flag = 0 THEN {0}
    ELSE IF count < 32 THEN {Shl(flag, count)}
    ELSE {0, flag}

\* lines 812-814: an int is stored at the start of a block of
\* num_bytes_constraint_info bytes and that many bytes are written, in the
\* byte order of a little-endian host; bytes after the fourth were never set
ConstraintBytes(v) ==
    LET nb == v.num_bytes_constraint_info
    IN  { LET word == BitOr(BitOr(fo, ml), Shr(v.general_constraint_info[1], 2))
              le   == <<word % 256, Shr(word, 8) % 256, Shr(word, 16) % 256,
                        Shr(word, 24) % 256>>
          IN  SubSeq(le, 1, FFMIN(nb, 4)) \o [k \in 1 .. nb - 4 |-> fill]
          : fo \in FlagShifts(v.ptl_frame_only_constraint_flag, nb * 8 - 1),
            ml \in FlagShifts(v.ptl_multilayer_enabled_flag, nb * 8 - 2),
            fill \in IF nb > 4 THEN UninitBytes ELSE {0} }

\* lines 863-881
OmitsCount_Never(nal_type) == FALSE
OmitsCount(nal_type) == nal_type = VVC_DCI_NUT \/ nal_type = VVC_OPI_NUT

RECURSIVE WriteNalus(_, _, _)
WriteNalus(s, a, j) ==
    IF j > a.numNalus THEN s
    ELSE WriteNalus(avio_write(avio_wb16(s, a.nalUnitLength[j]),
                               SubSeq(a.nalUnit[j], 1, a.nalUnitLength[j])),
                    a, j + 1)

WriteArray(s, a) ==
    LET s1 == avio_w8(s, BitOr(Shl(a.array_completeness, 7), BitAnd(a.NAL_unit_type, 31)))
        s2 == IF OmitsCount(a.NAL_unit_type) THEN s1 ELSE avio_wb16(s1, a.numNalus)
    IN  WriteNalus(s2, a, 1)

RECURSIVE WriteArrays(_, _, _)
WriteArrays(s, v, i) ==
    IF i > v.numOfArrays THEN s ELSE WriteArrays(WriteArray(s, v.array[i]), v, i + 1)

\* lines 781-806
WritePtlHead(s, v) ==
    avio_w8(avio_w8(avio_w8(avio_w8(avio_wb16(avio_w8(s, FirstByte(v)),
        PackedTwoBytes(v)),
        BitOr(Shl(v.bit_depth_minus8, 5), 31)),
        BitAnd(v.num_bytes_constraint_info, 63)),
        BitOr(Shl(v.general_profile_idc, 1), v.general_tier_flag)),
        v.general_level_idc)

\* lines 837-861, with no sub-profile to write
WritePtlTail(s, v) ==
    avio_wb16(avio_wb16(avio_wb16(avio_w8(s, v.num_sub_profiles),
        v.max_picture_width), v.max_picture_height), v.avg_frame_rate)

\* Every outcome of one call.  general_constraint_info is dereferenced on
\* line 813; ptl_sublayer_level_present_flag and general_sub_profile_idc,
\* which no statement of the file assigns, on lines 826, 832 and 841.
vvcc_write(s, v0) ==
    LET v == [v0 EXCEPT !.avg_frame_rate = 0, !.constant_frame_rate = 1]
        head == WritePtlHead(s, v)
    IN  IF CountsInvalid(v)
        THEN {[pb |-> s, ret |-> AVERROR_INVALIDDATA, fault |-> FALSE, vvcc |-> v]}
        ELSE IF v.ptl_present_flag = 0
        THEN {[pb |-> WriteArrays(avio_w8(avio_w8(s, FirstByte(v)), v.numOfArrays), v, 1),
               ret |-> 0, fault |-> FALSE, vvcc |-> v]}
        ELSE IF v.general_constraint_info = NULL
        THEN {[pb |-> head, ret |-> 0, fault |-> TRUE, vvcc |-> v]}
        ELSE { LET s1 == avio_write(head, cb)
               IN  IF (v.num_sublayers > 1 /\ v.ptl_sublayer_level_present_flag = NULL)
                      \/ (v.num_sub_profiles > 0 /\ v.general_sub_profile_idc = NULL)
                   THEN [pb |-> s1, ret |-> 0, fault |-> TRUE, vvcc |-> v]
                   ELSE [pb |-> WriteArrays(avio_w8(WritePtlTail(s1, v), v.numOfArrays), v, 1),
                         ret |-> 0, fault |-> FALSE, vvcc |-> v]
               : cb \in ConstraintBytes(v) }

-----------------------------------------------------------------------------
(* ff_vvc_decode_extradata (libavcodec/libopenvvc.c), the reader of the      *)
(* record.  The byte reader is libavcodec/bytestream.h: a read that does not *)
(* fit yields 0 and moves to the end.  p is the offset of gb.buffer in d.    *)

bytestream2_get_byte(d, p) ==
    IF Len(d) - p < 1 THEN [v |-> 0, p |-> Len(d)] ELSE [v |-> d[p + 1], p |-> p + 1]

bytestream2_get_be16(d, p) ==
    IF Len(d) - p < 2 THEN [v |-> 0, p |-> Len(d)]
    ELSE [v |-> Shl(d[p + 1], 8) + d[p + 2], p |-> p + 2]

bytestream2_peek_be16(d, p) ==
    IF Len(d) - p < 2 THEN 0 ELSE Shl(d[p + 1], 8) + d[p + 2]

bytestream2_skip(d, p, size) == p + FFMIN(Len(d) - p, size)

RECURSIVE SkipBytes(_, _, _)
SkipBytes(d, p, count) ==
    IF count <= 0 THEN p ELSE SkipBytes(d, bytestream2_get_byte(d, p).p, count - 1)

\* lines 179-238: up to and including numOfArrays
RECURSIVE SkipSubProfiles(_, _, _)
SkipSubProfiles(d, p, count) ==
    IF count <= 0 THEN p
    ELSE SkipSubProfiles(d, bytestream2_get_be16(d, bytestream2_get_be16(d, p).p).p,
                         count - 1)

\* lines 202-213
HeadConstraintInfo(d, temp3) ==
    SkipBytes(d, bytestream2_get_byte(d, temp3.p).p, BitAnd(temp3.v, 63))

\* lines 223-229
HeadSubProfiles(d, num) == SkipSubProfiles(d, num.p, num.v)

\* lines 193-233
HeadPtl(d, p) ==
    bytestream2_get_be16(d, bytestream2_get_be16(d, bytestream2_get_be16(d,
        HeadSubProfiles(d,
            bytestream2_get_byte(d,
                bytestream2_get_byte(d,
                    HeadConstraintInfo(d,
                        bytestream2_get_byte(d,
                            bytestream2_get_byte(d,
                                bytestream2_get_be16(d, p).p).p))).p))).p).p).p

HeadResult(b, num_arrays) ==
    [ nal_len_size |-> BitAnd(Shr(b.v, 1), 3) + 1,
      num_arrays |-> num_arrays.v, p |-> num_arrays.p ]

HeadFrom(d, b) ==
    HeadResult(b, bytestream2_get_byte(d, IF BitAnd(b.v, 1) # 0 THEN HeadPtl(d, b.p) ELSE b.p))

DecodeHead(d) == HeadFrom(d, bytestream2_get_byte(d, 0))

\* line 251: the test is true of every type, so the count is always read
ReadsCount(type) == type # VVC_OPI_NUT \/ type # VVC_DCI_NUT

\* line 261
NalSize(d, p) == bytestream2_peek_be16(d, p) + 2

\* line 278: nalsize bytes from gb.buffer + 2; those beyond the end of the
\* extradata are whatever follows it (pad)
CopiedBytes(d, p, nalsize, pad) ==
    [k \in 1 .. nalsize |-> IF p + 2 + k <= Len(d) THEN d[p + 2 + k] ELSE pad]

\* lines 258-294.  ovdec_submit_picture_unit is taken to accept every unit.
RECURSIVE DecodeNalus(_, _, _, _, _, _)
DecodeNalus(d, p, type, count, pad, acc) ==
    IF count = 0 THEN [p |-> p, nalus |-> acc, ret |-> 0]
    ELSE LET nalsize == NalSize(d, p)
         IN  IF Len(d) - p < nalsize
             THEN [p |-> p, nalus |-> acc, ret |-> AVERROR_INVALIDDATA]
             ELSE DecodeNalus(d, bytestream2_skip(d, p, nalsize), type, count - 1, pad,
                     Append(acc, [ type |-> type, rbsp_size |-> nalsize,
                                   rbsp_data |-> CopiedBytes(d, p, nalsize, pad) ]))

\* lines 249-254
ArrayType(t) == BitAnd(t.v, 31)
ArrayCount(d, t) ==
    IF ReadsCount(ArrayType(t)) THEN bytestream2_get_be16(d, t.p) ELSE [v |-> 1, p |-> t.p]

\* lines 247-295
RECURSIVE DecodeArrays(_, _, _, _, _)
ArraysAfter(d, count, pad, acc, type, cnt, r) ==
    IF r.ret < 0
    THEN [ arrays |-> Append(acc, [type |-> type, cnt |-> cnt, nalus |-> r.nalus]),
           ret |-> r.ret ]
    ELSE DecodeArrays(d, r.p, count - 1, pad,
                      Append(acc, [type |-> type, cnt |-> cnt, nalus |-> r.nalus]))

ArrayFrom(d, count, pad, acc, type, c) ==
    ArraysAfter(d, count, pad, acc, type, c.v, DecodeNalus(d, c.p, type, c.v, pad, <<>>))

ArrayAt(d, count, pad, acc, t) ==
    ArrayFrom(d, count, pad, acc, ArrayType(t), ArrayCount(d, t))

DecodeArrays(d, p, count, pad, acc) ==
    IF count = 0 THEN [arrays |-> acc, ret |-> 0]
    ELSE ArrayAt(d, count, pad, acc, bytestream2_get_byte(d, p))

DecodeResult(h, r) ==
    [ ret |-> r.ret, is_nalff |-> 1,
      nal_length_size |-> IF r.ret < 0 THEN 2 ELSE h.nal_len_size,
      num_arrays |-> h.num_arrays, arrays |-> r.arrays ]

DecodeFrom(d, h, pad) == DecodeResult(h, DecodeArrays(d, h.p, h.num_arrays, pad, <<>>))

\* every outcome of one call
ff_vvc_decode_extradata(d) == { DecodeFrom(d, DecodeHead(d), pad) : pad \in UninitBytes }

-----------------------------------------------------------------------------
(* The Annex-B scanner of libavformat/avc.c: ff_avc_find_startcode and the   *)
(* loop of ff_avc_parse_nal_units, which turns start-code-delimited NAL      *)
(* units into 4-byte-length-prefixed ones.  Offsets are 0-based.             *)

StartCodeAt(d, i) ==
    i + 2 < Len(d) /\ d[i + 1] = 0 /\ d[i + 2] = 0 /\ d[i + 3] = 1

RECURSIVE FindStartCode(_, _)
FindStartCode(d, p) ==
    IF p >= Len(d) THEN Len(d)
    ELSE IF StartCodeAt(d, p) THEN p
    ELSE FindStartCode(d, p + 1)

\* the zero byte of a 4-byte start code belongs to the start code
ff_avc_find_startcode(d, p) ==
    LET out == FindStartCode(d, p)
    IN  IF p < out /\ out < Len(d) /\ d[out] = 0 THEN out - 1 ELSE out

\* while (nal_start < end && !*(nal_start++));
RECURSIVE SkipStartCode(_, _)
SkipStartCode(d, p) ==
    IF p >= Len(d) THEN p
    ELSE IF d[p + 1] = 0 THEN SkipStartCode(d, p + 1)
    ELSE p + 1

RECURSIVE NalUnitsFrom(_, _)
NalUnitsFrom(d, p) ==
    LET nal_start == SkipStartCode(d, p)
    IN  IF nal_start = Len(d) THEN <<>>
        ELSE LET nal_end == ff_avc_find_startcode(d, nal_start)
             IN  <<SubSeq(d, nal_start + 1, nal_end)>> \o NalUnitsFrom(d, nal_end)

\* the NAL units of an Annex-B buffer, in order
NalUnits(d) == NalUnitsFrom(d, ff_avc_find_startcode(d, 0))

LengthPrefixed(nals) ==
    Concat([i \in 1 .. Len(nals) |-> BE32(Len(nals[i])) \o nals[i]])

\* ff_avc_parse_nal_units_buf: the buffer *start of *size bytes
ff_avc_parse_nal_units_buf(d) == LengthPrefixed(NalUnits(d))

-----------------------------------------------------------------------------
(* ff_vvc_annexb2mp4.                                                        *)

\* line 907 (and 986): type = buf[5] >> 3.  The loop runs while end - buf > 4,
\* so with end - buf = 5 the byte read is the one at end.  The buffer comes
\* from avio_close_dyn_buf, which leaves AV_INPUT_BUFFER_PADDING_SIZE zero
\* bytes after the size it reports: the byte read there is 0.
TypeByteInside(b, o) == o + 5 < Len(b)
TypeInside_FirstByte(b, o) == Shr(b[o + 5], 3)
TypeInside(b, o) == Shr(b[o + 6], 3)
NalTypeAt(b, o) == IF TypeByteInside(b, o) THEN TypeInside(b, o) ELSE Shr(0, 3)

\* line 906 (and 985)
NalLenAt(b, o) == FFMIN(AV_RB32(b, o), Len(b) - o - 4)

IsParameterSet_NoPps(type) == type \in {VVC_VPS_NUT, VVC_SPS_NUT}
IsParameterSet(type) == type \in {VVC_VPS_NUT, VVC_SPS_NUT, VVC_PPS_NUT}

\* lines 892-899
A2mEntry ==
    /\ pc = "a2m_entry"
    /\ IF ~filter_ps
       THEN /\ pb' = avio_write(pb, ff_avc_parse_nal_units_buf(data))
            /\ ret' = Len(ff_avc_parse_nal_units_buf(data))
            /\ pc' = "done"
            /\ UNCHANGED <<start, buf>>
       ELSE /\ start' = ff_avc_parse_nal_units_buf(data)
            /\ buf' = 0
            /\ ret' = 0
            /\ pc' = "a2m_loop"
            /\ UNCHANGED pb
    /\ UNCHANGED <<data, filter_ps, ps_completeness, vvcc, num_ps, oob, ptls, first, decoded>>
    /\ UNCHANGED <<gb, calls, args, priv_data>>

\* lines 905-925, one iteration
A2mLoop ==
    /\ pc = "a2m_loop"
    /\ Len(start) - buf > 4
    /\ LET len  == NalLenAt(start, buf)
           type == NalTypeAt(start, buf)
       IN  /\ oob' = (oob \/ ~TypeByteInside(start, buf))
           /\ IF IsParameterSet(type)
              THEN /\ num_ps' = num_ps + 1
                   /\ UNCHANGED <<ret, pb>>
              ELSE /\ ret' = ret + 4 + len
                   /\ pb' = avio_write(avio_wb32(pb, len),
                                       SubSeq(start, buf + 5, buf + 4 + len))
                   /\ UNCHANGED num_ps
           /\ buf' = buf + 4 + len
    /\ UNCHANGED <<pc, data, filter_ps, ps_completeness, start, vvcc, ptls, first, decoded>>
    /\ UNCHANGED <<gb, calls, args, priv_data>>

\* lines 927-931
A2mEnd ==
    /\ pc = "a2m_loop"
    /\ ~(Len(start) - buf > 4)
    /\ pc' = "done"
    /\ UNCHANGED <<data, filter_ps, ps_completeness, start, buf, vvcc, pb, ret, num_ps, oob, ptls,
                   first, decoded>>
    /\ UNCHANGED <<gb, calls, args, priv_data>>

-----------------------------------------------------------------------------
(* Values every specification gives the variables it does not use.          *)

Idle ==
    /\ data = <<>> /\ filter_ps = FALSE /\ ps_completeness = 0
    /\ start = <<>> /\ buf = 0
    /\ pb = <<>> /\ ret = 0 /\ num_ps = 0 /\ oob = FALSE
    /\ first = <<>> /\ decoded = <<>>
    /\ gb = <<>> /\ calls = <<>> /\ args = <<>> /\ priv_data = <<>>

-----------------------------------------------------------------------------
(* SpecPtl: vvcc_update_ptl applied to a sequence of PTLs, starting from a  *)
(* record as vvcc_init leaves it (num_sublayers as the parameter-set        *)
(* parsers set it before they reach a PTL).                                 *)

MaxPtls == 3
MaxInitSublayers == 2

Ptl(profile, tier, level, fo, ml, gci, nres, nsub) ==
    [ profile_idc |-> profile, tier_flag |-> tier, general_level_idc |-> level,
      ptl_frame_only_constraint_flag |-> fo, ptl_multilayer_enabled_flag |-> ml,
      gci_present_flag |-> gci, gci_general_constraints |-> 0,
      gci_num_reserved_bits |-> nres,
      ptl_sublayer_level_present_flag |-> <<>>, sublayer_level_idc |-> <<>>,
      ptl_num_sub_profiles |-> nsub, general_sub_profile_idc |-> <<>> ]

PtlInputs ==
    { Ptl(1, t, l, fo, ml, 0, 0, 0) :
        t \in {0, 1}, l \in {48, 51}, fo \in {0, 1}, ml \in {0, 1} }
    \cup { Ptl(2, 0, 35, 1, 1, 1, 0, 0), Ptl(1, 1, 35, 1, 1, 1, 9, 0),
           Ptl(1, 0, 35, 1, 1, 1, 32, 0), Ptl(1, 0, 35, 1, 1, 0, 0, 1) }

PtlInit ==
    /\ pc = "ptl"
    /\ \E n \in 0 .. MaxInitSublayers : vvcc = [vvcc_init EXCEPT !.num_sublayers = n]
    /\ ptls = <<>>
    /\ Idle

PtlUpdate ==
    /\ pc = "ptl"
    /\ Len(ptls) < MaxPtls
    /\ \E p \in PtlInputs, b \in UninitBytes :
         LET r == vvcc_update_ptl(vvcc, p, [shift71 |-> b])
         IN  /\ vvcc' = r.vvcc
             /\ pc' = IF r.fault THEN "crash" ELSE "ptl"
             /\ ptls' = Append(ptls, p)
    /\ UNCHANGED <<data, filter_ps, ps_completeness, start, buf, pb, ret, num_ps, oob, first, decoded>>
    /\ UNCHANGED <<gb, calls, args, priv_data>>

PtlNext == PtlUpdate

SpecPtl == PtlInit /\ [][PtlNext]_vars

Tiers(ps) == [i \in 1 .. Len(ps) |-> ps[i].tier_flag]
Levels(ps) == [i \in 1 .. Len(ps) |-> ps[i].general_level_idc]
MaxTier(ps) == SeqMax(Tiers(ps))
SetMax(S) == IF S = {} THEN 0 ELSE CHOOSE m \in S : \A x \in S : x <= m
LevelAtMaxTier(ps) ==
    SetMax({ ps[i].general_level_idc : i \in { j \in 1 .. Len(ps) : ps[j].tier_flag = MaxTier(ps) } })
FirstAtMaxTier(ps) ==
    CHOOSE i \in 1 .. Len(ps) :
        /\ ps[i].tier_flag = MaxTier(ps)
        /\ \A j \in 1 .. (i - 1) : ps[j].tier_flag # MaxTier(ps)
LevelFromFirstMaxTier(ps) ==
    SetMax({ ps[i].general_level_idc : i \in FirstAtMaxTier(ps) .. Len(ps) })
Aggregated == pc = "ptl" /\ ptls # <<>>

\* C4: after vvcc_update_ptl has run on P1..Pk, in whatever order,
\* general_tier_flag is the highest tier_flag among them.
C4_TierIsMax == Aggregated => vvcc.general_tier_flag = MaxTier(ptls)
C4_Witness ==
    /\ Aggregated /\ Len(ptls) >= 2
    /\ ptls[1].tier_flag = 1 /\ ptls[2].tier_flag = 0
    /\ vvcc.general_tier_flag = 1

\* C5 as stated: general_level_idc is the highest level among the PTLs of the
\* highest tier, whatever the order of the PTLs.
C5_LevelAtMaxTier == Aggregated => vvcc.general_level_idc = LevelAtMaxTier(ptls)
\* C5 amended: general_level_idc is the highest level among the first PTL of
\* the highest tier and every PTL added after it, of whatever tier; it is
\* never below the highest level at the highest tier.
C5_LevelFromFirstMaxTier ==
    Aggregated =>
        /\ vvcc.general_level_idc = LevelFromFirstMaxTier(ptls)
        /\ vvcc.general_level_idc >= LevelAtMaxTier(ptls)
C5_Witness ==
    /\ Aggregated /\ Len(ptls) = 2
    /\ ptls[1].tier_flag = 1 /\ ptls[1].general_level_idc = 48
    /\ ptls[2].tier_flag = 0 /\ ptls[2].general_level_idc = 51
    /\ vvcc.general_level_idc = 51

\* C6: after one or more PTLs, ptl_frame_only_constraint_flag is the AND of
\* their frame-only flags and ptl_multilayer_enabled_flag the AND of their
\* multilayer flags.
C6_FlagsAreAnd ==
    Aggregated =>
        /\ vvcc.ptl_frame_only_constraint_flag =
             (IF \A i \in 1 .. Len(ptls) : ptls[i].ptl_frame_only_constraint_flag = 1
              THEN 1 ELSE 0)
        /\ vvcc.ptl_multilayer_enabled_flag =
             (IF \A i \in 1 .. Len(ptls) : ptls[i].ptl_multilayer_enabled_flag = 1
              THEN 1 ELSE 0)

-----------------------------------------------------------------------------
(* SpecAnnexB: ff_vvc_annexb2mp4 on Annex-B buffers of up to MaxNals NAL    *)
(* units, with 3-byte or 4-byte start codes.                                *)

MaxNals == 3

NalHeader(type) == <<0, Shl(type, 3) + 1>>

SmallNals ==
    { NalHeader(VVC_VPS_NUT) \o <<170>>,
      NalHeader(VVC_SPS_NUT),
      NalHeader(VVC_PPS_NUT) \o <<1, 2>>,
      NalHeader(VVC_PREFIX_SEI_NUT) \o <<7>>,
      <<63, 15, 85>>,
      <<0, 8, 85, 102, 119>>,
      <<128>> }

StartCodes == { <<0, 0, 1>>, <<0, 0, 0, 1>> }

RECURSIVE AnnexB(_, _)
AnnexB(nals, sc) ==
    IF nals = <<>> THEN <<>> ELSE sc \o Head(nals) \o AnnexB(Tail(nals), sc)

SeqsUpTo(S, n) == UNION { [1 .. k -> S] : k \in 0 .. n }

AnnexBInputs ==
    { AnnexB(nals, sc) : nals \in SeqsUpTo(SmallNals, MaxNals), sc \in StartCodes }

A2mInit ==
    /\ pc = "a2m_entry"
    /\ data \in AnnexBInputs
    /\ filter_ps \in BOOLEAN
    /\ ps_completeness = 0
    /\ start = <<>> /\ buf = 0 /\ vvcc = vvcc_init /\ pb = <<>> /\ ret = 0
    /\ num_ps = 0 /\ oob = FALSE /\ ptls = <<>> /\ first = <<>> /\ decoded = <<>>
    /\ gb = <<>> /\ calls = <<>> /\ args = <<>> /\ priv_data = <<>>

A2mNext == A2mEntry \/ A2mLoop \/ A2mEnd

SpecAnnexB == A2mInit /\ [][A2mNext]_vars

\* nal_unit_type: the top five bits of the second header byte
NalUnitType(nal) == Shr(nal[2], 3)
IsPsNal(nal) == Len(nal) >= 2 /\ NalUnitType(nal) \in {VVC_VPS_NUT, VVC_SPS_NUT, VVC_PPS_NUT}
NonPs(nals) == SelectSeq(nals, LAMBDA n : ~IsPsNal(n))
PsCount(nals) == Len(SelectSeq(nals, IsPsNal))

\* C7: with filter_ps set, ff_vvc_annexb2mp4 writes a 4-byte big-endian
\* length and the bytes of every NAL unit that is not a VPS, SPS or PPS, in
\* input order, writes nothing for VPS, SPS and PPS, counts these in ps_count
\* and returns the number of bytes written.
C7_FilterPs ==
    (pc = "done" /\ filter_ps) =>
        /\ pb = LengthPrefixed(NonPs(NalUnits(data)))
        /\ num_ps = PsCount(NalUnits(data))
        /\ ret = Len(pb)

C7_Witness ==
    /\ pc = "done" /\ filter_ps
    /\ num_ps = 2 /\ Len(NalUnits(data)) = 3 /\ pb # <<>>

\* C8: the loop reads no byte at or beyond the end of its buffer.
C8_NoReadBeyondEnd == oob = FALSE

-----------------------------------------------------------------------------
(* ff_isom_write_vvcc, one step per loop iteration, followed by the reader   *)
(* of the record or by a second call on the bytes the first one emitted.     *)

\* lines 963-973
IsVvccFormatted_Zero(d) == d[1] = 0
IsVvccFormatted(d) == d[1] = 1
HasStartCode_Anywhere(d) == TRUE
\* (the 32-bit value is compared by its 16-bit halves)
AV_RB16(b, o) == Shl(b[o + 1], 8) + b[o + 2]
HasStartCode(d) == AV_RB24(d, 0) = 1 \/ (AV_RB16(d, 0) = 0 /\ AV_RB16(d, 2) = 1)

IsomEntry ==
    /\ pc = "isom_entry"
    /\ IF Len(data) < 6
       THEN /\ ret' = AVERROR_INVALIDDATA /\ pc' = "done"
            /\ UNCHANGED <<pb, start, buf, vvcc>>
       ELSE IF IsVvccFormatted(data)
       THEN /\ pb' = avio_write(pb, data) /\ ret' = 0 /\ pc' = "done"
            /\ UNCHANGED <<start, buf, vvcc>>
       ELSE IF ~HasStartCode(data)
       THEN /\ ret' = AVERROR_INVALIDDATA /\ pc' = "done"
            /\ UNCHANGED <<pb, start, buf, vvcc>>
       ELSE /\ start' = ff_avc_parse_nal_units_buf(data)
            /\ vvcc' = vvcc_init
            /\ buf' = 0
            /\ pc' = "isom_loop"
            /\ UNCHANGED <<pb, ret>>
    /\ UNCHANGED <<data, filter_ps, ps_completeness, num_ps, oob, ptls, first, decoded>>
    /\ UNCHANGED <<gb, calls, args, priv_data>>

\* lines 984-1006, one iteration; a negative return leaves through end
IsomNal ==
    /\ pc = "isom_loop"
    /\ Len(start) - buf > 4
    /\ LET len  == NalLenAt(start, buf)
           type == NalTypeAt(start, buf)
       IN  /\ oob' = (oob \/ ~TypeByteInside(start, buf))
           /\ IF IsStoredType(type)
              THEN \E o \in vvcc_add_nal_unit(SubSeq(start, buf + 5, buf + 4 + len), len,
                                              ps_completeness, vvcc) :
                     IF o.fault
                     THEN pc' = "fault_parse" /\ UNCHANGED <<vvcc, ret, buf>>
                     ELSE IF o.ret < 0
                     THEN pc' = "isom_failed" /\ ret' = o.ret /\ UNCHANGED <<vvcc, buf>>
                     ELSE /\ vvcc' = o.vvcc /\ buf' = buf + 4 + len
                          /\ UNCHANGED <<pc, ret>>
              ELSE buf' = buf + 4 + len /\ UNCHANGED <<pc, vvcc, ret>>
    /\ UNCHANGED <<data, filter_ps, ps_completeness, start, pb, num_ps, ptls, first, decoded>>
    /\ UNCHANGED <<gb, calls, args, priv_data>>

\* line 1008
IsomWrite ==
    /\ pc = "isom_loop"
    /\ ~(Len(start) - buf > 4)
    /\ \E o \in vvcc_write(pb, vvcc) :
         /\ pb' = o.pb
         /\ vvcc' = o.vvcc
         /\ IF o.fault THEN pc' = "fault_write" /\ UNCHANGED ret
            ELSE pc' = "isom_written" /\ ret' = o.ret
    /\ UNCHANGED <<data, filter_ps, ps_completeness, start, buf, num_ps, oob, ptls, first,
                   decoded>>
    /\ UNCHANGED <<gb, calls, args, priv_data>>

\* lines 1010-1013
IsomClose ==
    /\ pc \in {"isom_written", "isom_failed"}
    /\ vvcc' = vvcc_close(vvcc)
    /\ start' = <<>>
    /\ buf' = 0
    /\ pc' = "done"
    /\ UNCHANGED <<data, filter_ps, ps_completeness, pb, ret, num_ps, oob, ptls, first,
                   decoded>>
    /\ UNCHANGED <<gb, calls, args, priv_data>>

\* the bytes a successful conversion has emitted are handed to a second call
IsomAgain ==
    /\ pc = "done" /\ ret = 0
    /\ Len(data) >= 6 /\ ~IsVvccFormatted(data)
    /\ first = <<>>
    /\ first' = pb
    /\ data' = pb
    /\ pb' = <<>>
    /\ pc' = "isom_entry"
    /\ UNCHANGED <<filter_ps, ps_completeness, start, buf, vvcc, ret, num_ps, oob, ptls,
                   decoded>>
    /\ UNCHANGED <<gb, calls, args, priv_data>>

\* the bytes vvcc_write has just emitted are handed to the reader
DecodeExtradata ==
    /\ pc = "isom_written" /\ ret = 0
    /\ \E r \in ff_vvc_decode_extradata(pb) : decoded' = r
    /\ pc' = "decoded"
    /\ UNCHANGED <<data, filter_ps, ps_completeness, start, buf, vvcc, pb, ret, num_ps, oob,
                   ptls, first>>
    /\ UNCHANGED <<gb, calls, args, priv_data>>


\* Input NAL units, built field by field in the layout the parsers read.
Bits(v, n) == [k \in 1 .. n |-> Shr(v, n - k) % 2]

RECURSIVE BitLength(_)
BitLength(x) == IF x = 0 THEN 0 ELSE 1 + BitLength(x \div 2)

UeBits(v) == [k \in 1 .. BitLength(v + 1) - 1 |-> 0] \o Bits(v + 1, BitLength(v + 1))

RECURSIVE PackBits(_)
PackBits(bits) ==
    IF bits = <<>> THEN <<>>
    ELSE IF Len(bits) < 8 THEN PackBits(bits \o [k \in 1 .. 8 - Len(bits) |-> 0])
    ELSE <<128 * bits[1] + 64 * bits[2] + 32 * bits[3]
           + 16 * bits[4] + 8 * bits[5] + 4 * bits[6] + 2 * bits[7] + bits[8]>>
         \o PackBits(SubSeq(bits, 9, Len(bits)))

\* emulation prevention, as an encoder inserts it
RECURSIVE InsertEpb(_, _)
InsertEpb(bytes, zeros) ==
    IF bytes = <<>> THEN <<>>
    ELSE IF zeros = 2 /\ Head(bytes) <= 3 THEN <<3>> \o InsertEpb(bytes, 0)
    ELSE <<Head(bytes)>> \o InsertEpb(Tail(bytes), IF Head(bytes) = 0 THEN zeros + 1 ELSE 0)

\* profile_tier_level of a single-sublayer stream, without constraint info
\* and without sub-profiles
PtlSyntax(profile, tier, level, fo, ml) ==
    PackBits(Bits(profile, 7) \o <<tier>> \o Bits(level, 8) \o <<fo, ml, 0>>) \o <<0>>

VpsNal(profile, tier, level, fo, ml) ==
    InsertEpb(NalHeader(VVC_VPS_NUT)
              \o PackBits(Bits(1, 4) \o Bits(0, 6) \o Bits(0, 3) \o Bits(0, 6))
              \o PtlSyntax(profile, tier, level, fo, ml) \o <<128>>, 0)

SpsTail(width, height, depth) ==
    PackBits(<<0, 0>> \o UeBits(width) \o UeBits(height) \o <<0, 0>> \o UeBits(depth) \o <<1>>)

SpsNal(ptl, width, height, depth) ==
    InsertEpb(NalHeader(VVC_SPS_NUT) \o <<1>>
              \o PackBits(Bits(0, 3) \o Bits(1, 2) \o Bits(2, 2) \o <<1>>)
              \o ptl \o SpsTail(width, height, depth), 0)

\* an SPS of a two-sublayer stream that carries no profile_tier_level
SpsNalNoPtl(max_sub_layers_minus1, width, height, depth) ==
    InsertEpb(NalHeader(VVC_SPS_NUT) \o <<1>>
              \o PackBits(Bits(max_sub_layers_minus1, 3) \o Bits(1, 2) \o Bits(2, 2) \o <<0>>
                          \o <<0, 0>> \o UeBits(width) \o UeBits(height) \o <<0, 0>>
                          \o UeBits(depth) \o <<1>>), 0)

\* general_constraints_info as the syntax lays it out: gci_present_flag, the
\* 71 constraint bits, gci_num_reserved_bits (3) and the reserved bits
GciPayload == <<1>> \o [k \in 1 .. 63 |-> 0] \o Bits(133, 8) \o Bits(3, 8) \o <<0, 0, 0>>

\* profile_tier_level of a single-sublayer stream with constraint info
PtlSyntaxGci(profile, tier, level, fo, ml, payload) ==
    PackBits(Bits(profile, 7) \o <<tier>> \o Bits(level, 8) \o <<fo, ml>> \o payload) \o <<0>>

MaxIsomNals == 3

IsomNals ==
    { VpsNal(1, 0, 51, 1, 0),
      SpsNal(PtlSyntax(1, 1, 48, 1, 1), 1920, 1080, 2),
      SpsNalNoPtl(1, 640, 480, 0),
      NalHeader(VVC_PPS_NUT) \o <<1, 2>>,
      NalHeader(VVC_OPI_NUT) \o <<9>>,
      NalHeader(VVC_PREFIX_SEI_NUT) \o <<7, 7>>,
      <<0, 8, 85>>,
      <<128>> }

\* inputs that are not Annex-B streams, and one with 3-byte start codes
RawInputs ==
    { <<>>, <<1>>, <<1, 0, 0, 0, 1>>, <<1, 2, 3, 4, 5, 6>>,
      <<1, 0, 0, 1>> \o NalHeader(VVC_VPS_NUT) \o <<7>>,
      <<0, 0, 1, 0, 113>>, <<2, 0, 0, 1, 9, 9>>, <<255, 0, 0, 0, 1, 0, 113>>,
      AnnexB(<<VpsNal(1, 0, 51, 1, 0), SpsNal(PtlSyntax(1, 1, 48, 1, 1), 1920, 1080, 2)>>,
             <<0, 0, 1>>) }

\* a stream behind a stray first byte, and streams with a DCI or a suffix SEI
StrayByteInput ==
    <<2>> \o AnnexB(<<VpsNal(1, 0, 51, 1, 0),
                      SpsNal(PtlSyntax(1, 1, 48, 1, 1), 1920, 1080, 2)>>, <<0, 0, 0, 1>>)
DciNal == NalHeader(VVC_DCI_NUT) \o <<9>>
SuffixSeiNal == NalHeader(VVC_SUFFIX_SEI_NUT) \o <<7, 7>>
MoreInputs ==
    { StrayByteInput }
    \cup { AnnexB(<<VpsNal(1, 0, 51, 1, 0),
                    SpsNal(PtlSyntax(1, 1, 48, 1, 1), 1920, 1080, 2), n>>, <<0, 0, 0, 1>>)
           : n \in {DciNal, SuffixSeiNal} }

IsomInputs ==
    RawInputs \cup MoreInputs
    \cup { AnnexB(nals, <<0, 0, 0, 1>>) : nals \in SeqsUpTo(IsomNals, MaxIsomNals) }

IsomInit ==
    /\ pc = "isom_entry"
    /\ data \in IsomInputs
    /\ ps_completeness \in {0, 1}
    /\ filter_ps = FALSE
    /\ start = <<>> /\ buf = 0 /\ vvcc = vvcc_init /\ pb = <<>> /\ ret = 0
    /\ num_ps = 0 /\ oob = FALSE /\ ptls = <<>> /\ first = <<>> /\ decoded = <<>>
    /\ gb = <<>> /\ calls = <<>> /\ args = <<>> /\ priv_data = <<>>

IsomNext ==
    IsomEntry \/ IsomNal \/ IsomWrite \/ IsomClose \/ IsomAgain \/ DecodeExtradata

SpecIsom == IsomInit /\ [][IsomNext]_vars


\* C1 as stated: for any input whose first byte is 0x01, ff_isom_write_vvcc
\* writes the whole input, nothing else, and returns success.
C1_Passthrough ==
    (pc = "done" /\ Len(data) >= 1 /\ data[1] = 1) => (pb = data /\ ret = 0)

\* C1, amended: that holds for inputs of at least 6 bytes; a shorter input is
\* refused with InvalidData before its first byte is looked at.
C1_PassthroughFromSixBytes ==
    /\ (pc = "done" /\ Len(data) >= 6 /\ data[1] = 1) => (pb = data /\ ret = 0)
    /\ (pc = "done" /\ Len(data) < 6) => (pb = <<>> /\ ret = AVERROR_INVALIDDATA)

C1_Witness ==
    /\ pc = "done" /\ data = <<1, 0, 0, 1>> \o NalHeader(VVC_VPS_NUT) \o <<7>>
    /\ pb = data /\ ret = 0

\* the NAL units of one type a record holds
RECURSIVE StoredNals(_, _, _)
StoredNals(v, nal_type, i) ==
    IF i > Len(v.array) THEN 0
    ELSE StoredNals(v, nal_type, i + 1)
         + IF v.array[i].NAL_unit_type = nal_type THEN Len(v.array[i].nalUnit) ELSE 0

WriteRan == pc \in {"isom_written", "fault_write"}

\* C2: vvcc_write returns InvalidData exactly when the record holds no VPS,
\* more than VVC_MAX_VPS_COUNT VPS, no SPS or more than VVC_MAX_SPS_COUNT SPS,
\* and returns success in every other case.
C2_WriteResult ==
    WriteRan =>
        /\ pc = "isom_written"
        /\ ret = IF \/ StoredNals(vvcc, VVC_VPS_NUT, 1) = 0
                    \/ StoredNals(vvcc, VVC_VPS_NUT, 1) > VVC_MAX_VPS_COUNT
                    \/ StoredNals(vvcc, VVC_SPS_NUT, 1) = 0
                    \/ StoredNals(vvcc, VVC_SPS_NUT, 1) > VVC_MAX_SPS_COUNT
                 THEN AVERROR_INVALIDDATA ELSE 0

\* C3: the first byte of every record vvcc_write emits has its top five bits
\* set, lengthSizeMinusOne in bits 2..1 and ptl_present_flag in bit 0.
C3_FirstByte ==
    (pc = "isom_written" /\ ret = 0) =>
        /\ BitAnd(pb[1], 248) = 248
        /\ BitAnd(Shr(pb[1], 1), 3) = vvcc.lengthSizeMinusOne
        /\ BitAnd(pb[1], 1) = vvcc.ptl_present_flag

C3_Witness ==
    /\ pc = "isom_written" /\ ret = 0
    /\ pb[1] = 255 /\ vvcc.lengthSizeMinusOne = 3 /\ vvcc.ptl_present_flag = 1

\* C9: the bytes R that ff_isom_write_vvcc emits for an Annex-B extradata with
\* a VPS and an SPS are accepted by a second call, which emits R again.
C9_RoundTrip ==
    (pc = "done" /\ first # <<>>) => (ret = 0 /\ pb = first)

\* C10: from the bytes of a record vvcc_write has serialized,
\* ff_vvc_decode_extradata recovers the NAL length size, the number of arrays
\* and, array by array, the type, the number of NAL units and the length and
\* bytes of each NAL unit.
SameNal(n, a, j) ==
    /\ n.rbsp_size = a.nalUnitLength[j]
    /\ n.rbsp_data = SubSeq(a.nalUnit[j], 1, a.nalUnitLength[j])

SameArray(r, a) ==
    /\ r.type = a.NAL_unit_type
    /\ r.cnt = a.numNalus
    /\ Len(r.nalus) = a.numNalus
    /\ \A j \in 1 .. a.numNalus : SameNal(r.nalus[j], a, j)

C10_ReaderRecovers ==
    pc = "decoded" =>
        /\ decoded.ret = 0
        /\ decoded.nal_length_size = vvcc.lengthSizeMinusOne + 1
        /\ decoded.num_arrays = vvcc.numOfArrays
        /\ Len(decoded.arrays) = vvcc.numOfArrays
        /\ \A i \in 1 .. vvcc.numOfArrays : SameArray(decoded.arrays[i], vvcc.array[i])

-----------------------------------------------------------------------------
(* SpecAdd: vvcc_add_nal_unit called again and again on one record, then    *)
(* vvcc_write.  av_reallocp_array (libavutil/mem.c) can fail; it then frees *)
(* the block it was asked to resize, nulls the pointer and returns          *)
(* AVERROR(ENOMEM), which vvcc_array_add_nal_unit returns at once (lines    *)
(* 575-576, 587-588, 591-592).                                              *)

\* the allocations of one vvcc_array_add_nal_unit call: line 574 runs only
\* for a type that has no array yet
ReallocCalls(v, index) ==
    IF index >= v.numOfArrays THEN {"array", "nalUnit", "nalUnitLength"}
    ELSE {"nalUnit", "nalUnitLength"}

\* lines 574-576: vvcc->array is freed and null, numOfArrays keeps its value
ArrayReallocFails(v) == [v EXCEPT !.array = NULL]

\* lines 586-592, after lines 571-581 have made room for the type: the
\* array's nalUnit (or nalUnitLength) is freed and null, numNalus keeps its
\* value
NalReallocFails(v, index, failing) ==
    IF failing = "nalUnit" THEN [v EXCEPT !.array[index + 1].nalUnit = NULL]
    ELSE [v EXCEPT !.array[index + 1].nalUnitLength = NULL]

ArrayAddFailsAt(v, index, failing) ==
    IF failing = "array" THEN ArrayReallocFails(v)
    ELSE NalReallocFails(EnsureArray(v, index), index, failing)

\* vvcc_add_nal_unit when the allocation named by failing fails: lines
\* 645-648 hand the error on.  A type outside the switch makes no allocation.
AddNalUnitNoMem(nal_buf, v, nal_type, failing) ==
    [ vvcc |-> ArrayAddFailsAt(v, ArrayIndex(v, nal_type, 0), failing),
      ret |-> AVERROR_ENOMEM, fault |-> FALSE ]

MaxCalls == 3

AddNals ==
    { VpsNal(1, 0, 51, 1, 0),
      SpsNal(PtlSyntax(1, 1, 48, 1, 1), 1920, 1080, 2),
      SpsNalNoPtl(1, 640, 480, 0),
      SpsNalNoPtl(7, 640, 480, 0),
      SpsNal(PtlSyntaxGci(1, 0, 51, 1, 1, GciPayload), 640, 480, 0),
      SpsNalNoPtl(0, 65636, 65537, 0),
      SubSeq(SpsNal(PtlSyntax(1, 1, 48, 1, 1), 1920, 1080, 2), 1, 5),
      NalHeader(VVC_PPS_NUT) \o <<1, 2>>,
      NalHeader(VVC_OPI_NUT) \o <<4>>,
      NalHeader(VVC_SUFFIX_SEI_NUT) \o <<7, 7>>,
      NalHeader(VVC_DCI_NUT) \o <<9>>,
      <<0, 8, 85>> }

AddInit ==
    /\ pc = "add"
    /\ vvcc = vvcc_init
    /\ ps_completeness \in {0, 1}
    /\ data = <<>> /\ filter_ps = FALSE /\ start = <<>> /\ buf = 0
    /\ pb = <<>> /\ ret = 0 /\ num_ps = 0 /\ oob = FALSE
    /\ ptls = <<>> /\ first = <<>> /\ decoded = <<>>
    /\ gb = <<>> /\ calls = <<>> /\ args = <<>> /\ priv_data = <<>>

\* one call, every allocation succeeding
AddNalUnit ==
    /\ pc = "add"
    /\ Len(calls) < MaxCalls
    /\ \E nal \in AddNals :
         \E o \in vvcc_add_nal_unit(nal, Len(nal), ps_completeness, vvcc) :
            /\ vvcc' = o.vvcc
            /\ calls' = Append(calls, [nal |-> nal, ret |-> o.ret])
            /\ IF o.fault THEN pc' = "crash" /\ UNCHANGED ret
               ELSE ret' = o.ret /\ UNCHANGED pc
    /\ UNCHANGED <<data, filter_ps, ps_completeness, start, buf, pb, num_ps, oob, ptls,
                   first, decoded, gb, args, priv_data>>

\* one call in which an allocation of vvcc_array_add_nal_unit fails
AddNalUnitFails ==
    /\ pc = "add"
    /\ Len(calls) < MaxCalls
    /\ \E nal \in { n \in AddNals : IsStoredType(NalUnitType(n)) } :
         \E failing \in ReallocCalls(vvcc, ArrayIndex(vvcc, NalUnitType(nal), 0)) :
            /\ vvcc' = AddNalUnitNoMem(nal, vvcc, NalUnitType(nal), failing).vvcc
            /\ ret' = AddNalUnitNoMem(nal, vvcc, NalUnitType(nal), failing).ret
            /\ calls' = Append(calls, [nal |-> nal, ret |-> AVERROR_ENOMEM])
    /\ pc' = "nomem"
    /\ UNCHANGED <<data, filter_ps, ps_completeness, start, buf, pb, num_ps, oob, ptls,
                   first, decoded, gb, args, priv_data>>

\* vvcc_write on the record the calls have built
AddWrite ==
    /\ pc = "add"
    /\ \E o \in vvcc_write(pb, vvcc) :
         /\ pb' = o.pb
         /\ vvcc' = o.vvcc
         /\ IF o.fault THEN pc' = "write_crash" /\ UNCHANGED ret
            ELSE pc' = "written" /\ ret' = o.ret
    /\ UNCHANGED <<data, filter_ps, ps_completeness, start, buf, num_ps, oob, ptls, first,
                   decoded, gb, calls, args, priv_data>>

AddNext == AddNalUnit \/ AddNalUnitFails \/ AddWrite

SpecAdd == AddInit /\ [][AddNext]_vars

\* what the calls that returned 0 added, read off the call history
Added == SelectSeq(calls, LAMBDA c : c.ret = 0)
AddedOfType(t) == SelectSeq(Added, LAMBDA c : NalUnitType(c.nal) = t)
AddedTypes == { NalUnitType(Added[k].nal) : k \in 1 .. Len(Added) }
Returned == pc \in {"add", "nomem"}

\* C11: after any sequence of vvcc_add_nal_unit calls no two arrays of the
\* record have the same NAL_unit_type, numOfArrays is the number of distinct
\* types added with success and every array's numNalus is the number of NAL
\* units of its type added with success.
C11_ArraysByType ==
    Returned =>
        /\ Len(vvcc.array) = vvcc.numOfArrays
        /\ \A i, j \in DOMAIN vvcc.array :
             vvcc.array[i].NAL_unit_type = vvcc.array[j].NAL_unit_type => i = j
        /\ vvcc.numOfArrays = Cardinality(AddedTypes)
        /\ \A i \in DOMAIN vvcc.array :
             vvcc.array[i].numNalus = Len(AddedOfType(vvcc.array[i].NAL_unit_type))
\* C11 on the runs in which no allocation fails
C11_ArraysByTypeIfAllocated == (pc = "add") => C11_ArraysByType

\* sps_max_sublayers_minus1 / vps_max_sublayers_minus1 as the syntax places
\* them: after the two header bytes, 8 bits into an SPS and 10 bits into a VPS
MaxSubLayersMinus1(nal) ==
    get_bits(ff_nal_unit_extract_rbsp(nal, 2),
             IF NalUnitType(nal) = VVC_SPS_NUT THEN 24 ELSE 26, 3)
AddedVpsSps ==
    SelectSeq(Added, LAMBDA c : NalUnitType(c.nal) \in {VVC_VPS_NUT, VVC_SPS_NUT})
MaxSubLayers ==
    SetMax({ MaxSubLayersMinus1(AddedVpsSps[k].nal) + 1 : k \in 1 .. Len(AddedVpsSps) })

\* C12: once a VPS or an SPS has been added, num_sublayers is at least 1 and
\* is the largest max_sub_layers_minus1 + 1 of the VPS and SPS added so far;
\* no call makes it smaller.
C12_NumSublayers ==
    /\ [](((pc = "add") /\ AddedVpsSps # <<>>) =>
            (vvcc.num_sublayers >= 1 /\ vvcc.num_sublayers = MaxSubLayers))
    /\ [][vvcc'.num_sublayers >= vvcc.num_sublayers]_vars
C12_Witness ==
    /\ pc = "add" /\ Len(calls) = 2
    /\ calls[1] = [nal |-> SpsNalNoPtl(7, 640, 480, 0), ret |-> 0]
    /\ calls[2] = [nal |-> SpsNalNoPtl(1, 640, 480, 0), ret |-> 0]
    /\ vvcc.num_sublayers = 8

\* the 16-bit word at bytes 1-2 of what vvcc_write has emitted
WordAt1 == pb[2] * 256 + pb[3]
WroteWord == pc \in {"written", "write_crash"} /\ Len(pb) >= 3

\* C13: with ptl_present_flag set, bytes 1-2 of the record hold ols_idx in 9
\* bits, num_sublayers in 3 bits, constant_frame_rate (the value 1) in 2 bits
\* and chroma_format_idc in 2 bits, no field reaching into its neighbour.
C13_PackedFields ==
    (WroteWord /\ vvcc.ptl_present_flag = 1) =>
        /\ Shr(WordAt1, 7) = vvcc.ols_idx
        /\ BitAnd(Shr(WordAt1, 4), 7) = vvcc.num_sublayers
        /\ BitAnd(Shr(WordAt1, 2), 3) = 1
        /\ BitAnd(WordAt1, 3) = vvcc.chroma_format_idc
\* C13 for the records of at most 7 sublayers
C13_PackedFieldsBelow8 == (vvcc.num_sublayers <= 7) => C13_PackedFields

\* a vvcc_add_nal_unit call has just returned an error
CallFailed == calls' # calls /\ pc' # "crash" /\ ret' < 0
ArraysKept ==
    \A i \in 1 .. vvcc.numOfArrays :
        i \in DOMAIN vvcc'.array /\ vvcc'.array[i] = vvcc.array[i]

\* C14: a vvcc_add_nal_unit call that returns an error leaves every array and
\* every NAL unit of the record as it was, and leaves the record as the calls
\* that succeeded built it, so that a later call acts on that record.
C14_ErrorKeepsRecord == [][CallFailed => (ArraysKept /\ vvcc' = vvcc)]_vars
\* C14 for the calls that fail with AVERROR_INVALIDDATA
C14_InvalidDataKeepsRecord ==
    [][(CallFailed /\ ret' = AVERROR_INVALIDDATA) => (ArraysKept /\ vvcc' = vvcc)]_vars

\* the input begins with the start code 00 00 01 or 00 00 00 01
BeginsWithStartCode(d) ==
    SubSeq(d, 1, 3) = <<0, 0, 1>> \/ SubSeq(d, 1, 4) = <<0, 0, 0, 1>>

\* C15: ff_isom_write_vvcc returns AVERROR_INVALIDDATA for every input of
\* fewer than 6 bytes and for every longer input that begins with neither the
\* byte 01 nor a start code.
C15_RejectsMalformed ==
    (pc = "done" /\ (Len(data) < 6 \/ (data[1] # 1 /\ ~BeginsWithStartCode(data)))) =>
        (ret = AVERROR_INVALIDDATA /\ pb = <<>>)
C15_Witness ==
    pc = "done" /\ data = StrayByteInput /\ ret = AVERROR_INVALIDDATA /\ pb = <<>>

-----------------------------------------------------------------------------
(* Further properties of SpecPtl.                                           *)

\* the PTL a step has just handed to vvcc_update_ptl
Incoming == ptls'[Len(ptls')]
Updated == ptls' # ptls /\ pc' = "ptl"

\* C16: one vvcc_update_ptl step sets general_level_idc to the incoming level
\* when the incoming tier is above the record's, and to the larger of the two
\* levels otherwise; (tier 0, level 51) followed by (tier 1, level 48) on a
\* fresh record gives tier 1 and level 48.
C16_LevelStep ==
    /\ [][Updated =>
            vvcc'.general_level_idc =
                IF vvcc.general_tier_flag < Incoming.tier_flag
                THEN Incoming.general_level_idc
                ELSE SetMax({vvcc.general_level_idc, Incoming.general_level_idc})]_vars
    /\ []((/\ Aggregated /\ Len(ptls) = 2
           /\ Tiers(ptls) = <<0, 1>> /\ Levels(ptls) = <<51, 48>>)
          => (vvcc.general_tier_flag = 1 /\ vvcc.general_level_idc = 48))
C16_Witness ==
    /\ Aggregated /\ Len(ptls) = 2
    /\ Tiers(ptls) = <<0, 1>> /\ Levels(ptls) = <<51, 48>>
    /\ vvcc.general_tier_flag = 1 /\ vvcc.general_level_idc = 48

-----------------------------------------------------------------------------
(* Further properties of SpecIsom.                                          *)

ConfigTypes ==
    {VVC_VPS_NUT, VVC_SPS_NUT, VVC_PPS_NUT, VVC_PREFIX_SEI_NUT, VVC_SUFFIX_SEI_NUT,
     VVC_OPI_NUT, VVC_DCI_NUT}
InputNals == NalUnits(data)
InArray(nal) ==
    \E i \in DOMAIN vvcc.array :
        /\ vvcc.array[i].NAL_unit_type = NalUnitType(nal)
        /\ \E j \in DOMAIN vvcc.array[i].nalUnit : vvcc.array[i].nalUnit[j] = nal
Contains(s, t) == \E k \in 0 .. Len(s) - Len(t) : SubSeq(s, k + 1, k + Len(t)) = t
Collected(types) ==
    \A k \in 1 .. Len(InputNals) :
        Len(InputNals[k]) >= 2 =>
            IF NalUnitType(InputNals[k]) \in types
            THEN /\ InArray(InputNals[k])
                 /\ ret = 0 => Contains(pb, BE16(Len(InputNals[k])) \o InputNals[k])
            ELSE ~InArray(InputNals[k])
FirstCallWrote == pc = "isom_written" /\ first = <<>>

\* C17: every VPS, SPS, PPS, prefix SEI, suffix SEI, OPI and DCI NAL unit of
\* the Annex-B input is in the record's array of its type when
\* ff_isom_write_vvcc serializes the record, and so in the bytes it emits;
\* NAL units of other types are passed over and the loop goes on.
C17_CollectsConfigNals == FirstCallWrote => Collected(ConfigTypes)
\* C17 without the DCI
C17_CollectsAllButDci == FirstCallWrote => Collected(ConfigTypes \ {VVC_DCI_NUT})

\* the claimed outcome for sublayer i (0-based) of a record of n sublayers
SublayerOutcome(i, n) ==
    /\ vvcc'.ptl_sublayer_level_present_flag[i + 1] =
         BitOr(vvcc.ptl_sublayer_level_present_flag[i + 1],
               Incoming.ptl_sublayer_level_present_flag[i + 1])
    /\ vvcc'.sublayer_level_idc[i + 1] =
         IF vvcc'.ptl_sublayer_level_present_flag[i + 1] # 0
         THEN SetMax({vvcc.sublayer_level_idc[i + 1], Incoming.sublayer_level_idc[i + 1]})
         ELSE IF i = n - 2 THEN vvcc'.general_level_idc
         ELSE vvcc'.sublayer_level_idc[i + 2]

\* C18: vvcc_update_ptl on a record of more than one sublayer leaves, for
\* each sublayer from num_sublayers - 2 down to 0, the OR of the present
\* flags and the level the claim derives from it.
C18_SublayerLevels ==
    [][(ptls' # ptls /\ vvcc.num_sublayers > 1) =>
         /\ pc' = "ptl"
         /\ \A i \in 0 .. vvcc.num_sublayers - 2 : SublayerOutcome(i, vvcc.num_sublayers)]_vars

-----------------------------------------------------------------------------
(* SpecParse: vvcc_parse_ptl and vvcc_parse_vps run on their own, block by  *)
(* block, on an RBSP data; gb holds the reader's bit index and the parser's *)
(* locals between the blocks.                                               *)

MaxParseSublayers == 3
MaxParseLayers == 2

\* profile_tier_level syntax: the general fields, then the sublayer present
\* flags given by the top bits of flagbits, then bytes that the parser takes
\* for levels and for the sub-profile count
PtlRbsp(ptpf, flagbits) ==
    IF ptpf = 1
    THEN <<3, 51, 192, flagbits, 48, 51, 35, 0, 0, 0, 0, 0>>
    ELSE <<51, 192 + Shr(flagbits, 2), 48, 51, 35, 0, 0, 0, 0, 0>>
FlagBits == {0, 32, 64, 96, 128, 160, 192, 224}

\* video_parameter_set syntax: two header bytes, the ids, the
\* all-independent flag when there are several layers, then the bits of tail
VpsRbsp(max_layers_minus1, all_indep, tail) ==
    NalHeader(VVC_VPS_NUT)
    \o PackBits(Bits(1, 4) \o Bits(max_layers_minus1, 6) \o Bits(0, 3)
                \o (IF max_layers_minus1 > 0 THEN <<all_indep>> ELSE <<>>)
                \o Bits(tail[1], 8) \o Bits(tail[2], 8))
    \o <<0, 0, 0, 0, 0, 0, 0, 0>>
TailBytes == {0, 5, 80, 85, 170, 255}

\* The last four bits of the tail are where the parser meets the flags of
\* layer 1 (vps_independent_layer_flag, vps_max_tid_ref_present_flag and the
\* reference-layer bits) when the layers are not all independent, and
\* vps_each_layer_is_an_ols_flag when they are.  The values are those after
\* which vps_num_ptls_minus1 is read from the zero bytes, so that a stream
\* carries one profile_tier_level structure.
FlagBytes(all_indep) ==
    IF all_indep = 1 THEN {0, 8, 80, 88} ELSE {0, 8, 12, 14, 15, 92, 174}
VpsInputs ==
    UNION { { VpsRbsp(n, a, <<t, f>>) :
                n \in 0 .. MaxParseLayers, t \in TailBytes, f \in FlagBytes(a) } :
            a \in {0, 1} }

ParseInit ==
    /\ \/ /\ pc = "ptl_begin"
          /\ \E ptpf \in {0, 1}, msl \in 0 .. MaxParseSublayers, f \in FlagBits :
                /\ data = PtlRbsp(ptpf, f)
                /\ args = [index |-> 0, profileTierPresentFlag |-> ptpf,
                           max_sub_layers_minus1 |-> msl]
       \/ /\ pc = "vps_begin"
          /\ data \in VpsInputs
          /\ args = [index |-> 16]
    /\ vvcc = vvcc_init
    /\ gb = <<>> /\ calls = <<>> /\ priv_data = <<>>
    /\ filter_ps = FALSE /\ ps_completeness = 0 /\ start = <<>> /\ buf = 0
    /\ pb = <<>> /\ ret = 0 /\ num_ps = 0 /\ oob = FALSE
    /\ ptls = <<>> /\ first = <<>> /\ decoded = <<>>

ParseIdle ==
    UNCHANGED <<data, filter_ps, ps_completeness, start, buf, pb, ret, num_ps, oob, ptls,
                first, decoded, calls, args, priv_data>>

\* vvcc_parse_ptl, lines 182-206: up to the sublayer present flags
PtlBegin ==
    /\ pc = "ptl_begin"
    /\ \E g \in PtlGarbageFor(args.profileTierPresentFlag) :
         gb' = PtlSublayerFlags(data,
                 PtlGciSkip(data,
                   PtlGciInfo(data,
                     PtlGciFlag(data,
                       PtlLevelFlags(data,
                         PtlProfileTier(data, [index |-> args.index, ptl |-> g],
                                        args.profileTierPresentFlag)),
                       args.profileTierPresentFlag),
                     args.profileTierPresentFlag),
                   args.profileTierPresentFlag),
                 args.max_sub_layers_minus1)
    /\ pc' = "ptl_levels"
    /\ UNCHANGED vvcc
    /\ ParseIdle

\* lines 208-211: the sublayer levels
PtlLevels ==
    /\ pc = "ptl_levels"
    /\ gb' = PtlSublayerLevels(data, gb, args.max_sub_layers_minus1)
    /\ pc' = "ptl_tail"
    /\ UNCHANGED vvcc
    /\ ParseIdle

\* lines 213-225: the sub-profiles, vvcc_update_ptl and the three free()
PtlEnd ==
    /\ pc = "ptl_tail"
    /\ gb' = PtlSubProfiles(data, gb, args.profileTierPresentFlag)
    /\ \E o \in PtlOutcomes(PtlSubProfiles(data, gb, args.profileTierPresentFlag), vvcc,
                            FreeFor(args.profileTierPresentFlag)) :
         /\ vvcc' = o.vvcc
         /\ pc' = IF o.fault THEN "crash" ELSE "parsed"
    /\ ParseIdle

\* vvcc_parse_vps, lines 356-376: the ids and the two flags
VpsBegin ==
    /\ pc = "vps_begin"
    /\ \E g \in VpsGarbageFor(data, args.index) :
         gb' = VpsAllIndep(data, VpsDefaultFlag(data, VpsIds(data, VpsStart(args.index, g))))
    /\ pc' = "vps_layers"
    /\ UNCHANGED vvcc
    /\ ParseIdle

\* lines 378-389: the layer loop
VpsLayerStep ==
    /\ pc = "vps_layers"
    /\ gb' = VpsLayers(data, gb)
    /\ pc' = "vps_tail"
    /\ UNCHANGED vvcc
    /\ ParseIdle

\* lines 391-431: the output layer sets, the PTL arrays and the PTLs
VpsEnd ==
    /\ pc = "vps_tail"
    /\ \E o \in VpsPtls(data, vvcc,
                  VpsAlign(data,
                    VpsPtlArrays(data,
                      VpsNumPtls(data,
                        VpsOlsSets(data, VpsOlsMode(data, VpsEachLayer(data, gb)))), 0))) :
         /\ gb' = [gb EXCEPT !.index = o.index]
         /\ vvcc' = o.vvcc
         /\ pc' = IF o.fault THEN "crash" ELSE "parsed"
    /\ ParseIdle

ParseNext == PtlBegin \/ PtlLevels \/ PtlEnd \/ VpsBegin \/ VpsLayerStep \/ VpsEnd

SpecParse == ParseInit /\ [][ParseNext]_vars

NumSet(flags) == Len(SelectSeq(flags, LAMBDA f : f = 1))

\* C19: vvcc_parse_ptl reads an 8-bit sublayer_level_idc only for the
\* sublayers whose present flag it has just read as 1, so that
\* num_sub_profiles is read 8 bits per set flag after the aligned end of the
\* flags.
C19_LevelsOnlyWherePresent ==
    [][(pc = "ptl_levels" /\ pc' = "ptl_tail") =>
         gb'.index = gb.index + 8 * NumSet(gb.ptl.ptl_sublayer_level_present_flag)]_vars

\* The layer syntax as C20 states it, from bit k on.  For each j < i: one
\* direct_ref_layer_flag bit and, when it and max_tid_ref_present_flag are
\* both 1, 3 bits more.
RECURSIVE ClaimedRefLayers(_, _, _, _)
ClaimedRefLayers(b, k, present, count) ==
    IF count = 0 THEN k
    ELSE ClaimedRefLayers(b, k + (IF Bit(b, k) = 1 /\ present = 1 THEN 4 ELSE 1),
                          present, count - 1)

\* layer i: 6 bits of layer id; for i > 0 with the all-independent flag clear,
\* the independent_layer_flag and, exactly when it is 0, the
\* max_tid_ref_present_flag and the reference layers
ClaimedLayer(b, k, i, all_indep) ==
    IF i > 0 /\ all_indep = 0
    THEN IF Bit(b, k + 6) = 0
         THEN ClaimedRefLayers(b, k + 8, Bit(b, k + 7), i)
         ELSE k + 7
    ELSE k + 6

RECURSIVE ClaimedLayers(_, _, _, _, _)
ClaimedLayers(b, k, i, max_layers_minus1, all_indep) ==
    IF i > max_layers_minus1 THEN k
    ELSE ClaimedLayers(b, ClaimedLayer(b, k, i, all_indep), i + 1, max_layers_minus1,
                       all_indep)

\* C20: in vvcc_parse_vps, for each layer i > 0 when the all-independent flag
\* is 0, one independent_layer_flag bit is read and, exactly when it is 0, one
\* max_tid_ref_present_flag bit and, for each j < i, one direct_ref_layer_flag
\* bit with 3 bits skipped when both flags are 1; when it is 1 nothing more
\* is consumed for the layer.
C20_LayerSyntax ==
    [][(pc = "vps_layers" /\ pc' = "vps_tail") =>
         gb'.index = ClaimedLayers(data, gb.index, 0, gb.max_layers_minus1, gb.all_indep)]_vars
\* C20 for the streams whose layers are all independent or single
C20_LayerSyntaxIndependent ==
    [][(pc = "vps_layers" /\ pc' = "vps_tail"
        /\ (gb.max_layers_minus1 = 0 \/ gb.all_indep = 1)) =>
         gb'.index = ClaimedLayers(data, gb.index, 0, gb.max_layers_minus1, gb.all_indep)]_vars
-----------------------------------------------------------------------------
(* Further properties of SpecAdd: what vvcc_write emits.                     *)

\* the bytes of the record up to the end of the constraint block: the first
\* byte, bytes 1-2, the bit depth, the three PTL bytes and the block
AfterConstraint == 7 + vvcc.num_bytes_constraint_info
WroteConstraint ==
    /\ pc \in {"written", "write_crash"}
    /\ vvcc.ptl_present_flag = 1
    /\ Len(pb) >= AfterConstraint

\* the flags of sublayers n-2 .. 0, the first in the most significant bit
RECURSIVE FlagsFromTop(_, _, _)
FlagsFromTop(flags, i, bit) ==
    IF i < 0 THEN 0 ELSE flags[i + 1] * Pow2(bit) + FlagsFromTop(flags, i - 1, bit - 1)

\* C21: with num_sublayers > 1 vvcc_write emits, after the constraint block,
\* one byte holding ptl_sublayer_level_present_flag[num_sublayers - 2] in its
\* most significant bit, the flags of the lower sublayers after it and zeros
\* in the rest; with num_sublayers <= 1 it emits no such byte.
C21_SublayerFlagByte ==
    WroteConstraint =>
        IF vvcc.num_sublayers > 1
        THEN /\ pc = "written"
             /\ vvcc.ptl_sublayer_level_present_flag # NULL
             /\ Len(pb) > AfterConstraint
             /\ pb[AfterConstraint + 1] =
                  FlagsFromTop(vvcc.ptl_sublayer_level_present_flag, vvcc.num_sublayers - 2, 7)
        ELSE pb = WriteArrays(avio_w8(WritePtlTail(SubSeq(pb, 1, AfterConstraint), vvcc),
                                      vvcc.numOfArrays), vvcc, 1)
\* C21 for the records of one sublayer
C21_NoFlagByteForOneSublayer == (vvcc.num_sublayers <= 1) => C21_SublayerFlagByte
C21_OneSublayerWritten == WroteConstraint /\ vvcc.num_sublayers = 1 /\ pc = "written"
\* the VPS and SPS added that carry a profile_tier_level, in call order
CarriesPtl(nal) ==
    \/ NalUnitType(nal) = VVC_VPS_NUT
    \/ NalUnitType(nal) = VVC_SPS_NUT
         /\ Bit(ff_nal_unit_extract_rbsp(nal, 2), 31) = 1
AddedPtls == SelectSeq(Added, LAMBDA c : CarriesPtl(c.nal))
LastHasGci ==
    AddedPtls[Len(AddedPtls)].nal = SpsNal(PtlSyntaxGci(1, 0, 51, 1, 1, GciPayload), 640, 480, 0)

\* the constraint block as the record format lays it out: the two flags of
\* the record, then the leading bits of the payload
PackedBlock(v, payload) ==
    PackBits(SubSeq(<<v.ptl_frame_only_constraint_flag, v.ptl_multilayer_enabled_flag>>
                    \o payload \o [k \in 1 .. 8 |-> 0],
                    1, 8 * v.num_bytes_constraint_info))

\* C22: the constraint block vvcc_write emits is num_bytes_constraint_info
\* bytes (1 after a PTL without general-constraints info, 10 +
\* ceil(gci_num_reserved_bits / 8) after one with it) holding
\* ptl_frame_only_constraint_flag, ptl_multilayer_enabled_flag and then the
\* leading bits of the constraint payload.
C22_ConstraintBlock ==
    (WroteConstraint /\ AddedPtls # <<>>) =>
        /\ vvcc.num_bytes_constraint_info = IF LastHasGci THEN 10 + CeilDiv8(3) ELSE 1
        /\ SubSeq(pb, 8, AfterConstraint) =
             PackedBlock(vvcc, IF LastHasGci THEN GciPayload ELSE <<>>)
\* C22 where the last PTL came in an SPS without general-constraints info
LastInPlainSps ==
    /\ AddedPtls # <<>>
    /\ NalUnitType(AddedPtls[Len(AddedPtls)].nal) = VVC_SPS_NUT
    /\ ~LastHasGci
C22_ConstraintBlockAfterPlainSps == LastInPlainSps => C22_ConstraintBlock
C22_WroteOneByteBlock == WroteConstraint /\ LastInPlainSps /\ pc = "written"
\* one array as the record format lays it out, its NAL units being those the
\* calls added, in the order of the calls
RECURSIVE FormatNalus(_, _)
FormatNalus(added, j) ==
    IF j > Len(added) THEN <<>>
    ELSE <<Len(added[j].nal) \div 256, Len(added[j].nal) % 256>> \o added[j].nal
         \o FormatNalus(added, j + 1)
FormatArray(a) ==
    <<128 * a.array_completeness + (a.NAL_unit_type % 32)>>
    \o (IF a.NAL_unit_type \in {VVC_DCI_NUT, VVC_OPI_NUT} THEN <<>>
        ELSE <<a.numNalus \div 256, a.numNalus % 256>>)
    \o FormatNalus(AddedOfType(a.NAL_unit_type), 1)
RECURSIVE FormatArrays(_, _)
FormatArrays(v, i) ==
    IF i > v.numOfArrays THEN <<>> ELSE FormatArray(v.array[i]) \o FormatArrays(v, i + 1)

\* the arrays of a complete record stand after the 8 bytes that follow the
\* constraint block
WroteArrays == pc = "written" /\ ret = 0 /\ vvcc.ptl_present_flag = 1

\* C23: for each array vvcc_write emits the byte array_completeness << 7 |
\* NAL_unit_type & 0x1F, then numNalus in two bytes unless the type is DCI or
\* OPI, then each NAL unit in the order of insertion as a two-byte length and
\* that many bytes.
C23_ArrayBytes ==
    WroteArrays => SubSeq(pb, AfterConstraint + 9, Len(pb)) = FormatArrays(vvcc, 1)
C23_Witness ==
    /\ WroteArrays
    /\ vvcc.numOfArrays = 3
    /\ \E i \in 1 .. 3 : vvcc.array[i].NAL_unit_type = VVC_OPI_NUT
    /\ \E i \in 1 .. 3 : vvcc.array[i].array_completeness = 1
-----------------------------------------------------------------------------
(* Further properties of SpecIsom: the reader and the error returns.         *)

\* C24: for an array of type OPI or DCI ff_vvc_decode_extradata reads no
\* two-byte count and takes the count to be 1; for an array of any other
\* type it reads the count.
C24_CountOfOpiDci ==
    (pc = "decoded") =>
        \A i \in 1 .. Len(decoded.arrays) :
            decoded.arrays[i].type \in {VVC_OPI_NUT, VVC_DCI_NUT} => decoded.arrays[i].cnt = 1
\* the count is read for the other types: the first array of a record
\* that starts with a VPS array has the count the writer wrote
C24_CountOfFirstVps ==
    (pc = "decoded" /\ vvcc.numOfArrays > 0 /\ vvcc.array[1].NAL_unit_type = VVC_VPS_NUT) =>
        /\ decoded.arrays[1].type = VVC_VPS_NUT
        /\ decoded.arrays[1].cnt = vvcc.array[1].numNalus
-----------------------------------------------------------------------------
(* Further properties of SpecAdd: truncated parameter sets and the picture   *)
(* size.                                                                     *)

\* the parser of a VPS or SPS ends beyond the last bit of the RBSP
EndsBeyond(rbsp) ==
    \E o \in ParseStored(rbsp, nal_unit_parse_header(rbsp), vvcc_init) :
        o.index > 8 * Len(rbsp)
ReadsPastEnd(nal) ==
    /\ NalUnitType(nal) \in {VVC_VPS_NUT, VVC_SPS_NUT}
    /\ EndsBeyond(ff_nal_unit_extract_rbsp(nal, 2))

\* C25: vvcc_add_nal_unit returns AVERROR_INVALIDDATA for a VPS or SPS whose
\* RBSP ends before the fields the parser reads; it never returns success
\* after reading past the end of the RBSP.
C25_TruncatedRejected ==
    \A k \in 1 .. Len(calls) :
        (ReadsPastEnd(calls[k].nal) /\ calls[k].ret # AVERROR_ENOMEM)
            => calls[k].ret = AVERROR_INVALIDDATA
\* sps_pic_width_max_in_luma_samples and sps_pic_height_max_in_luma_samples
\* of an SPS, as 32-bit values in two 16-bit halves
SizeAfter(b, o) ==
    SpsHeight(b, SpsWidth(b, SpsGdr(b, [ index |-> o.index, vvcc |-> o.vvcc,
                                         width |-> UeDecrement(0, 1, 0),
                                         height |-> UeDecrement(0, 1, 0) ])))
DecodedSize(nal) ==
    LET b == ff_nal_unit_extract_rbsp(nal, 2)
    IN  SizeAfter(b, CHOOSE o \in SpsPtl(b, SpsHead(b, 16, vvcc_init)) : ~o.fault)
AddedSps == SelectSeq(Added, LAMBDA c : NalUnitType(c.nal) = VVC_SPS_NUT)
AtMost(x, y) == x.hi < y.hi \/ (x.hi = y.hi /\ x.lo <= y.lo)
IsMaxOf(field, values) ==
    \E m \in values : /\ \A x \in values : AtMost(x, m)
                      /\ m.hi = 0 /\ m.lo = field
Widths == { DecodedSize(AddedSps[k].nal).width : k \in 1 .. Len(AddedSps) }
Heights == { DecodedSize(AddedSps[k].nal).height : k \in 1 .. Len(AddedSps) }

\* C26: after any sequence of SPS NAL units max_picture_width is the largest
\* pic_width_max decoded from them and max_picture_height the largest
\* pic_height_max, values above 65535 included; neither field ever decreases.
C26_MaxPictureSize ==
    /\ []((pc = "add" /\ AddedSps # <<>>) =>
            /\ IsMaxOf(vvcc.max_picture_width, Widths)
            /\ IsMaxOf(vvcc.max_picture_height, Heights))
    /\ [][/\ vvcc'.max_picture_width >= vvcc.max_picture_width
          /\ vvcc'.max_picture_height >= vvcc.max_picture_height]_vars
\* C26 for the values that fit 16 bits
C26_MaxPictureSizeWithin16Bits ==
    (pc = "add" /\ AddedSps # <<>> /\ \A x \in Widths \cup Heights : x.hi = 0) =>
        /\ IsMaxOf(vvcc.max_picture_width, Widths)
        /\ IsMaxOf(vvcc.max_picture_height, Heights)
-----------------------------------------------------------------------------
(* Further properties of SpecIsom: the error returns of ff_isom_write_vvcc.  *)

\* the call went past vvcc_init (line 978)
PastInit == Len(data) >= 6 /\ ~IsVvccFormatted(data) /\ HasStartCode(data)

InLoop == pc = "isom_loop" /\ Len(start) - buf > 4
UnitAt(b, o) == SubSeq(b, o + 5, o + 4 + NalLenAt(b, o))
HeaderType(unit) == nal_unit_parse_header(ff_nal_unit_extract_rbsp(unit, 2)).nal_type

-----------------------------------------------------------------------------
(* Further properties of SpecParse.                                          *)

\* a vvcc_parse_ptl call without profile and tier has just returned
AbsentReturned ==
    pc = "ptl_tail" /\ args.profileTierPresentFlag = 0 /\ pc' = "parsed"

\* C29: a vvcc_parse_ptl call with profileTierPresentFlag = 0 leaves
\* general_profile_idc, general_tier_flag, num_sub_profiles and the
\* constraint-info bytes of the record as they were; the record it leaves
\* depends on the record before and on the bits read alone.
C29_AbsentFieldsKept ==
    [][AbsentReturned =>
         /\ vvcc'.general_profile_idc = vvcc.general_profile_idc
         /\ vvcc'.general_tier_flag = vvcc.general_tier_flag
         /\ vvcc'.num_sub_profiles = vvcc.num_sub_profiles
         /\ vvcc'.num_bytes_constraint_info = vvcc.num_bytes_constraint_info]_vars
-----------------------------------------------------------------------------
(* SpecVvdec: the flush mode of the VVdeC wrapper, libavcodec/libvvdec.c.   *)
(* priv_data is the VVdeCContext: bFlush, and vvdecDec as "open", "none"    *)
(* (vvdec_decoder_open returned NULL) or "closed".  The library is the      *)
(* environment: what vvdec_decode, vvdec_flush, vvdec_decoder_open and      *)
(* vvdec_decoder_close return is chosen freely.  calls records every        *)
(* wrapper call with the library function it invoked; ret is the value of   *)
(* the last call and decoded.got_frame what it left in *got_frame, which    *)
(* the caller clears before the call.                                       *)

VVDEC_TRY_AGAIN == -40
VVDEC_EOF == -50
AVERROR_EINVAL == -22

\* the wrapper calls made in one run
MaxFrameCalls == 4

\* avpkt->size: an empty and a non-empty packet
PacketSizes == {0, 5}

\* what vvdec_decode and vvdec_flush return: VVDEC_OK, the two codes the
\* wrapper tells apart, and another error (VVDEC_ERR_UNSPECIFIED)
LibReturns == {0, VVDEC_TRY_AGAIN, VVDEC_EOF, -1}

\* what happens to a frame the library handed out, lines 279-342
FrameOutcomes == {"none", "bad_format", "not_420", "bad_dimensions", "no_buffer", "copied"}

\* lines 238-241: an empty packet switches the flush mode on
EntersFlush(bFlush, size) == bFlush \/ size = 0

FlushAfter_IgnoresEof(bFlush, iRet) == bFlush

\* lines 261-270: VVDEC_EOF switches the flush mode on
FlushAfter(bFlush, iRet) == bFlush \/ iRet = VVDEC_EOF

\* the return value of ff_vvdec_decode_frame, lines 261-347
DecodeReturn(iRet, outcome, size) ==
    IF iRet < 0
    THEN IF iRet \in {VVDEC_TRY_AGAIN, VVDEC_EOF} THEN size ELSE AVERROR_EINVAL
    ELSE CASE outcome = "bad_format" -> AVERROR_INVALIDDATA
           [] outcome = "not_420" -> 0
           [] outcome = "bad_dimensions" -> AVERROR_EINVAL
           [] outcome = "no_buffer" -> AVERROR_ENOMEM
           [] OTHER -> size

VvdecInit ==
    /\ pc = "vvdec"
    /\ priv_data = [bFlush |-> FALSE, vvdecDec |-> "open"]
    /\ calls = <<>>
    /\ ret = 0
    /\ decoded = [got_frame |-> 0]
    /\ data = <<>> /\ filter_ps = FALSE /\ ps_completeness = 0 /\ start = <<>> /\ buf = 0
    /\ vvcc = <<>> /\ pb = <<>> /\ num_ps = 0 /\ oob = FALSE
    /\ ptls = <<>> /\ first = <<>> /\ gb = <<>> /\ args = <<>>

VvdecIdle ==
    UNCHANGED <<data, filter_ps, ps_completeness, start, buf, vvcc, pb, num_ps, oob, ptls,
                first, gb, args>>

\* ff_vvdec_decode_frame, lines 227-348.  Without a frame to fill (line 236)
\* the body is skipped; with one, the call settles the flush mode, invokes
\* vvdec_flush or vvdec_decode and handles what the library returned.
VvdecDecodeFrame ==
    /\ pc = "vvdec"
    /\ Len(calls) < MaxFrameCalls
    /\ \E size \in PacketSizes :
         \/ /\ calls' = Append(calls, [fn |-> "decode_frame", size |-> size, frame |-> FALSE,
                                       invoked |-> "nothing", iRet |-> 0])
            /\ ret' = size
            /\ decoded' = [got_frame |-> 0]
            /\ UNCHANGED priv_data
         \/ \E iRet \in LibReturns :
              \E outcome \in IF iRet = 0 THEN FrameOutcomes ELSE {"none"} :
                 /\ priv_data' = [priv_data EXCEPT
                         !.bFlush = FlushAfter(EntersFlush(priv_data.bFlush, size), iRet)]
                 /\ calls' = Append(calls,
                         [fn |-> "decode_frame", size |-> size, frame |-> TRUE,
                          invoked |-> IF EntersFlush(priv_data.bFlush, size)
                                      THEN "vvdec_flush" ELSE "vvdec_decode",
                          iRet |-> iRet])
                 /\ ret' = DecodeReturn(iRet, outcome, size)
                 /\ decoded' = [got_frame |-> IF outcome = "copied" THEN 1 ELSE 0]
    /\ UNCHANGED pc
    /\ VvdecIdle

\* ff_vvdec_decode_flush: the decoder is closed and opened again
VvdecDecodeFlush ==
    /\ pc = "vvdec"
    /\ Len(calls) < MaxFrameCalls
    /\ \E opened \in {"open", "none"} :
         priv_data' = [bFlush |-> FALSE, vvdecDec |-> opened]
    /\ calls' = Append(calls, [fn |-> "decode_flush", size |-> 0, frame |-> FALSE,
                               invoked |-> "vvdec_decoder_open", iRet |-> 0])
    /\ UNCHANGED <<pc, ret, decoded>>
    /\ VvdecIdle

\* ff_vvdec_decode_close: bFlush is cleared when vvdec_decoder_close succeeds
VvdecDecodeClose ==
    /\ pc = "vvdec"
    /\ Len(calls) < MaxFrameCalls
    /\ \E closed \in {0, -1} :
         /\ calls' = Append(calls, [fn |-> "decode_close", size |-> 0, frame |-> FALSE,
                                    invoked |-> "vvdec_decoder_close", iRet |-> closed])
         /\ IF closed = 0
            THEN /\ priv_data' = [bFlush |-> FALSE, vvdecDec |-> "closed"]
                 /\ pc' = "vvdec_closed"
                 /\ ret' = 0
            ELSE /\ ret' = -1
                 /\ UNCHANGED <<pc, priv_data>>
    /\ UNCHANGED decoded
    /\ VvdecIdle

\* ff_vvdec_decode_init on a closed context
VvdecDecodeInit ==
    /\ pc = "vvdec_closed"
    /\ Len(calls) < MaxFrameCalls
    /\ \E opened \in {"open", "none"} :
         /\ calls' = Append(calls, [fn |-> "decode_init", size |-> 0, frame |-> FALSE,
                                    invoked |-> "vvdec_decoder_open",
                                    iRet |-> IF opened = "open" THEN 0 ELSE -1])
         /\ IF opened = "open"
            THEN /\ priv_data' = [bFlush |-> FALSE, vvdecDec |-> "open"]
                 /\ pc' = "vvdec"
                 /\ ret' = 0
            ELSE /\ priv_data' = [priv_data EXCEPT !.vvdecDec = "none"]
                 /\ ret' = -1
                 /\ UNCHANGED pc
    /\ UNCHANGED decoded
    /\ VvdecIdle

VvdecNext ==
    \/ VvdecDecodeFrame
    \/ VvdecDecodeFlush
    \/ VvdecDecodeClose
    \/ VvdecDecodeInit

SpecVvdec == VvdecInit /\ [][VvdecNext]_vars

\* call i is an ff_vvdec_decode_frame call
IsDecodeCall(i) == calls[i].fn = "decode_frame"

\* call i switched the flush mode on: an empty packet, or VVDEC_EOF returned
StartsFlush(i) ==
    /\ IsDecodeCall(i)
    /\ \/ calls[i].size = 0
       \/ calls[i].invoked # "nothing" /\ calls[i].iRet = VVDEC_EOF

\* call i reset the flush flag
ResetsFlush(i) ==
    \/ calls[i].fn = "decode_flush"
    \/ calls[i].fn = "decode_close" /\ calls[i].iRet = 0

NoResetBetween(i, j) == \A k \in (i + 1) .. (j - 1) : ~ResetsFlush(k)

\* call j is a decode call given a frame to fill
IsFrameCall(j) == IsDecodeCall(j) /\ calls[j].frame

\* call j carries the first non-empty packet after call i
NextNonEmpty(i, j) ==
    /\ i < j
    /\ IsDecodeCall(j) /\ calls[j].size > 0
    /\ \A k \in (i + 1) .. (j - 1) : ~(IsDecodeCall(k) /\ calls[k].size > 0)

\* call j is the first decode call with a frame after call i
NextFrameCall(i, j) ==
    /\ i < j
    /\ IsFrameCall(j)
    /\ \A k \in (i + 1) .. (j - 1) : ~IsFrameCall(k)

\* C30: once ff_vvdec_decode_frame has received an empty packet or the
\* decoder has returned VVDEC_EOF, every later ff_vvdec_decode_frame call
\* invokes vvdec_flush and never vvdec_decode until ff_vvdec_decode_flush or
\* ff_vvdec_decode_close resets the flag, and after such a reset the next
\* non-empty packet is passed to vvdec_decode.
C30_FlushMode ==
    /\ \A i \in 1 .. Len(calls) : \A j \in (i + 1) .. Len(calls) :
         (StartsFlush(i) /\ IsDecodeCall(j) /\ NoResetBetween(i, j))
            => calls[j].invoked = "vvdec_flush"
    /\ \A i \in 1 .. Len(calls) : \A j \in (i + 1) .. Len(calls) :
         (ResetsFlush(i) /\ NextNonEmpty(i, j)) => calls[j].invoked = "vvdec_decode"

\* C30, for the calls that are given a frame to fill: once such a call has
\* received an empty packet or got VVDEC_EOF, every later call with a frame
\* invokes vvdec_flush until the flag is reset, and the first call with a
\* frame after a reset invokes vvdec_decode when its packet is non-empty.
C30_FlushModeWithFrame ==
    /\ \A i \in 1 .. Len(calls) : \A j \in (i + 1) .. Len(calls) :
         (StartsFlush(i) /\ calls[i].frame /\ IsFrameCall(j) /\ NoResetBetween(i, j))
            => calls[j].invoked = "vvdec_flush"
    /\ \A i \in 1 .. Len(calls) : \A j \in (i + 1) .. Len(calls) :
         (ResetsFlush(i) /\ NextFrameCall(i, j) /\ calls[j].size > 0)
            => calls[j].invoked = "vvdec_decode"

\* an empty packet, then a non-empty one sent to vvdec_flush, a reset by
\* ff_vvdec_decode_flush, and a non-empty packet sent to vvdec_decode
C30_Witness ==
    /\ Len(calls) = 4
    /\ StartsFlush(1) /\ calls[1].frame /\ calls[1].size = 0
    /\ IsDecodeCall(2) /\ calls[2].frame /\ calls[2].size > 0
    /\ calls[2].invoked = "vvdec_flush"
    /\ calls[3].fn = "decode_flush"
    /\ IsDecodeCall(4) /\ calls[4].frame /\ calls[4].size > 0
    /\ calls[4].invoked = "vvdec_decode"

\* the flush mode switched on by VVDEC_EOF: a non-empty packet is decoded,
\* the decoder reports VVDEC_EOF, and the next non-empty packet is flushed
C30_WitnessEof ==
    /\ Len(calls) >= 2
    /\ IsDecodeCall(1) /\ calls[1].size > 0 /\ calls[1].invoked = "vvdec_decode"
    /\ calls[1].iRet = VVDEC_EOF
    /\ IsDecodeCall(2) /\ calls[2].frame /\ calls[2].size > 0
    /\ calls[2].invoked = "vvdec_flush"

====
